---- MODULE Spec2Model ----
(***************************************************************************)
(* Model of the cassis registry: the operation codec (lib/src/operation),  *)
(* the state engine (lib/src/state), the mmap-backed log store             *)
(* (registry/src/db.rs) and the single-writer coordinator                  *)
(* (registry/src/background).                                              *)
(*                                                                         *)
(* Files are sequences of bytes (0..255).  A public key is a small         *)
(* positive number k whose 32-byte serialization is KeyBytes(k).  SHA-256  *)
(* and Schnorr signing are black boxes, modelled by SHA256 and Sign.       *)
(***************************************************************************)
EXTENDS Integers, Sequences, FiniteSets, TLC

VARIABLES
    keys,         \* State.keys: Vec<PublicKey>, 0-based index = position - 1
    key_indexes,  \* State.key_indexes: HashMap<[u8; 32], u32>
    lines,        \* State.lines: HashMap<u64, Line>
    offset_file,  \* bytes of STORE_PATH/offset
    log_file,     \* bytes of STORE_PATH/log
    hash_file,    \* bytes of STORE_PATH/hash
    thread,       \* the serializer thread: "running", "dead" (it panicked or
                  \* returned), "down" (no process), "failed" (startup panicked)
    io_errors,    \* IO errors injected since the last start
    last,         \* what the last step did (request, outcome, reply)
    chan,         \* the request channel: requests, queue, the serializer's position
    http          \* the HTTP boundary of the registry: the log table, the handler in
                  \* progress, the broadcast channel and its subscriber

vars == <<keys, key_indexes, lines, offset_file, log_file, hash_file, thread, io_errors, last, chan,
          http>>

----------------------------------------------------------------------------
(* Bounds of the model. *)

MaxAmount == 2      \* the non-zero Trust amount; hops move 1 or MaxAmount + 1
MaxBalance == 3     \* a Transfer is not submitted once |balance| would pass this
MaxLog == 2         \* appends are submitted while the offset file holds fewer entries
MaxIoErrors == 1    \* IO errors injected between two starts

----------------------------------------------------------------------------
(* Program constants. *)

TRUST_TAG == 116        \* b't'
TRANSFER_TAG == 120     \* b'x'
TRUST_SIZE == 109       \* 1 + 4 + 4 + 32 + 4 + 64
HOP_SIZE == 12
PEERSIG_SIZE == 68

----------------------------------------------------------------------------
(* Bytes. *)

Zeros(n) == [i \in 1..n |-> 0]

LE32(n) == << n % 256, (n \div 256) % 256, (n \div 65536) % 256, (n \div 16777216) % 256 >>

ReadLE32(b) == b[1] + 256 * b[2] + 65536 * b[3] + 16777216 * b[4]

LE16(n) == << n % 256, (n \div 256) % 256 >>

ReadLE16(b) == b[1] + 256 * b[2]

\* buf[off .. off + Len(bytes)) = bytes, 0-based off; the caller checks the bounds
Overwrite(buf, off, bytes) ==
    [i \in 1..Len(buf) |->
        IF i > off /\ i <= off + Len(bytes) THEN bytes[i - off] ELSE buf[i]]

RECURSIVE WeightedSum(_, _, _)
\* (lo * b[lo] + ... + hi * b[hi]) % 251
WeightedSum(b, lo, hi) ==
    IF lo > hi THEN 0
    ELSE IF lo = hi THEN (lo * b[lo]) % 251
    ELSE LET mid == (lo + hi) \div 2 IN
         (WeightedSum(b, lo, mid) + WeightedSum(b, mid + 1, hi)) % 251

\* sha256::Hash::hash: a digest that depends on every byte hashed, kept as a number
SHA256(b) == WeightedSum(b, 1, Len(b))

\* the 32 bytes of a digest (as_byte_array)
DigestBytes(d) == [i \in 1..32 |-> IF i = 1 THEN d ELSE 0]

----------------------------------------------------------------------------
(* Keys and signatures (lib/src/key.rs). *)

\* the public keys of the model; SERVER_KEY is the registry's own
KeyIds == {1, 2, 3}
SERVER_KEY == 1
NKeys == Cardinality(KeyIds)

\* PublicKey::serialize
KeyBytes(k) == [i \in 1..32 |-> IF i = 1 THEN k ELSE 0]

IsKeyBytes(b) == \E k \in KeyIds : KeyBytes(k) = b

\* XOnlyPublicKey::from_slice on the bytes of a valid key
KeyFromBytes(b) == CHOOSE k \in KeyIds : KeyBytes(k) = b

\* SecretKey::sign: the signature of key k over a digest, kept as the pair
Sign(k, digest) == <<k, digest>>

\* a [u8; 64] that no key signed
NoSig == <<0, 0>>

\* the 64 bytes of a signature, and back
SigBytes(sig) == [i \in 1..64 |-> IF i = 1 THEN sig[1] ELSE IF i = 2 THEN sig[2] ELSE 0]

SigFromBytes(b) == <<b[1], b[2]>>

\* PublicKey::verify
verify(key, sig, digest) == sig = Sign(key, digest)

----------------------------------------------------------------------------
(* Operation codec (lib/src/operation). *)

\* the outcome of a write into a buffer: the buffer, and whether an index was out of range
Written(buf) == [panic |-> FALSE, buf |-> buf]
Aborted(buf) == [panic |-> TRUE, buf |-> buf]

\* Trust::write_serialized: tag, ts, from, to, amount; the signature is not written
Trust_write_serialized(t, buf) ==
    IF Len(buf) < 1 THEN Aborted(buf)
    ELSE LET b0 == Overwrite(buf, 0, <<TRUST_TAG>>) IN
    IF Len(buf) < 5 THEN Aborted(b0)
    ELSE LET b1 == Overwrite(b0, 1, LE32(t.ts)) IN
    IF Len(buf) < 9 THEN Aborted(b1)
    ELSE LET b2 == Overwrite(b1, 5, LE32(t.from)) IN
    IF Len(buf) < 41 THEN Aborted(b2)
    ELSE LET b3 == Overwrite(b2, 9, KeyBytes(t.to)) IN
    IF Len(buf) < 45 THEN Aborted(b3)
    ELSE Written(Overwrite(b3, 41, LE32(t.amount)))

Trust_size(t) == TRUST_SIZE

Trust_size_nosig(t) == TRUST_SIZE - 64

\* Hop::write_to
Hop_write_to(hop) == LE32(hop.from) \o LE32(hop.amount) \o LE32(hop.to)

\* Hop::from_bytes
Hop_from_bytes(data) ==
    [from |-> ReadLE32(SubSeq(data, 1, 4)),
     amount |-> ReadLE32(SubSeq(data, 5, 8)),
     to |-> ReadLE32(SubSeq(data, 9, 12))]

\* PeerSig::from_bytes
PeerSig_from_bytes(data) ==
    [peer_idx |-> ReadLE32(SubSeq(data, 1, 4)), sig |-> SigFromBytes(SubSeq(data, 5, 68))]

RECURSIVE WriteHops(_, _, _)
\* the loop of Transfer::write_serialized, from hop i (1-based) on
WriteHops(hops, buf, i) ==
    IF i > Len(hops) THEN Written(buf)
    ELSE IF Len(buf) < 7 + i * HOP_SIZE THEN Aborted(buf)
    ELSE WriteHops(hops, Overwrite(buf, 7 + (i - 1) * HOP_SIZE, Hop_write_to(hops[i])), i + 1)

\* Transfer::write_serialized: tag, ts, nhops, nsigs, hops; the signatures are not written
Transfer_write_serialized(t, buf) ==
    IF Len(buf) < 1 THEN Aborted(buf)
    ELSE LET b0 == Overwrite(buf, 0, <<TRANSFER_TAG>>) IN
    IF Len(buf) < 5 THEN Aborted(b0)
    ELSE LET b1 == Overwrite(b0, 1, LE32(t.ts)) IN
    IF Len(buf) < 6 THEN Aborted(b1)
    ELSE LET b2 == Overwrite(b1, 5, <<Len(t.hops)>>) IN
    IF Len(buf) < 7 THEN Aborted(b2)
    ELSE WriteHops(t.hops, Overwrite(b2, 6, <<Len(t.sigs)>>), 1)

Transfer_size_nosig(t) == 1 + 4 + Len(t.hops) * HOP_SIZE

Transfer_size(t) == Transfer_size_nosig(t) + Len(t.sigs) * PEERSIG_SIZE

\* Operation::write_serialized
write_serialized(op, buf) ==
    CASE op.tag = "x" -> Transfer_write_serialized(op, buf)
      [] op.tag = "t" -> Trust_write_serialized(op, buf)
      [] OTHER -> Written(buf)

\* Operation::size
size(op) ==
    CASE op.tag = "x" -> Transfer_size(op)
      [] op.tag = "t" -> Trust_size(op)
      [] OTHER -> 0

size_nosig(op) ==
    CASE op.tag = "x" -> Transfer_size_nosig(op)
      [] op.tag = "t" -> Trust_size_nosig(op)
      [] OTHER -> 0

\* OperationOps::sighash: hash of write_serialized into a buffer of size_nosig bytes
sighash(op) ==
    IF op.tag = "u" THEN [panic |-> FALSE, digest |-> 0]
    ELSE LET w == write_serialized(op, Zeros(size_nosig(op))) IN
         IF w.panic THEN [panic |-> TRUE, digest |-> 0]
         ELSE [panic |-> FALSE, digest |-> SHA256(w.buf)]


\* Trust::deserialize; panic when a slice is out of range or `to` is no valid key
Trust_deserialize(buf) ==
    IF Len(buf) < TRUST_SIZE \/ ~IsKeyBytes(SubSeq(buf, 10, 41))
    THEN [panic |-> TRUE, op |-> [tag |-> "u"]]
    ELSE [panic |-> FALSE,
          op |-> [tag |-> "t",
                  ts |-> ReadLE32(SubSeq(buf, 2, 5)),
                  from |-> ReadLE32(SubSeq(buf, 6, 9)),
                  to |-> KeyFromBytes(SubSeq(buf, 10, 41)),
                  amount |-> ReadLE32(SubSeq(buf, 42, 45)),
                  sig |-> SigFromBytes(SubSeq(buf, 46, 109))]]

RECURSIVE ReadHops(_, _, _)
\* while i < nhops { hops.push(Hop::from_bytes(&buf[7 + i..])); i += Hop::SIZE }
ReadHops(buf, nhops, i) ==
    IF i >= nhops THEN [panic |-> FALSE, items |-> <<>>]
    ELSE IF Len(buf) < 7 + i + HOP_SIZE THEN [panic |-> TRUE, items |-> <<>>]
    ELSE LET rest == ReadHops(buf, nhops, i + HOP_SIZE) IN
         [panic |-> rest.panic,
          items |-> <<Hop_from_bytes(SubSeq(buf, 7 + i + 1, 7 + i + HOP_SIZE))>> \o rest.items]

RECURSIVE ReadSigs(_, _, _, _)
\* while i < nhops { sigs.push(PeerSig::from_bytes(&buf[start + i..])); i += PeerSig::SIZE }
ReadSigs(buf, start, nhops, i) ==
    IF i >= nhops THEN [panic |-> FALSE, items |-> <<>>]
    ELSE IF Len(buf) < start + i + PEERSIG_SIZE THEN [panic |-> TRUE, items |-> <<>>]
    ELSE LET rest == ReadSigs(buf, start, nhops, i + PEERSIG_SIZE) IN
         [panic |-> rest.panic,
          items |-> <<PeerSig_from_bytes(SubSeq(buf, start + i + 1, start + i + PEERSIG_SIZE))>>
                    \o rest.items]

\* Transfer::deserialize
Transfer_deserialize(buf) ==
    IF Len(buf) < 7 THEN [panic |-> TRUE, op |-> [tag |-> "u"]]
    ELSE LET nhops == buf[6]
             hops == ReadHops(buf, nhops, 0)
             sigs == ReadSigs(buf, 7 + nhops * HOP_SIZE, nhops, 0)
         IN IF hops.panic \/ sigs.panic THEN [panic |-> TRUE, op |-> [tag |-> "u"]]
            ELSE [panic |-> FALSE,
                  op |-> [tag |-> "x", ts |-> ReadLE32(SubSeq(buf, 2, 5)),
                          hops |-> hops.items, sigs |-> sigs.items]]

\* Operation::deserialize: dispatch on buf[0]
deserialize(buf) ==
    IF Len(buf) < 1 THEN [panic |-> TRUE, op |-> [tag |-> "u"]]
    ELSE IF buf[1] = TRANSFER_TAG THEN Transfer_deserialize(buf)
    ELSE IF buf[1] = TRUST_TAG THEN Trust_deserialize(buf)
    ELSE [panic |-> FALSE, op |-> [tag |-> "u"]]

\* PeerSig::write_to
PeerSig_write_to(isig) == LE32(isig.peer_idx) \o SigBytes(isig.sig)

RECURSIVE WriteSigs(_, _, _, _)
\* the loop of Transfer::as_bytes, from signature i (1-based) on
WriteSigs(sigs, buf, start, i) ==
    IF i > Len(sigs) THEN Written(buf)
    ELSE IF Len(buf) < start + i * PEERSIG_SIZE THEN Aborted(buf)
    ELSE WriteSigs(sigs, Overwrite(buf, start + (i - 1) * PEERSIG_SIZE, PeerSig_write_to(sigs[i])),
                   start, i + 1)

\* redb::Value for Transfer: write_serialized into size() bytes, then the signatures
Transfer_as_bytes(t) ==
    LET w == Transfer_write_serialized(t, Zeros(Transfer_size(t))) IN
    IF w.panic THEN w
    ELSE WriteSigs(t.sigs, w.buf, 7 + Len(t.hops) * HOP_SIZE, 1)

\* redb::Value for Trust: write_serialized into SIZE bytes, then the signature
Trust_as_bytes(t) ==
    LET w == Trust_write_serialized(t, Zeros(TRUST_SIZE)) IN
    IF w.panic THEN w ELSE Written(Overwrite(w.buf, 45, SigBytes(t.sig)))

\* redb::Value for Operation
as_bytes(op) ==
    CASE op.tag = "x" -> Transfer_as_bytes(op)
      [] op.tag = "t" -> Trust_as_bytes(op)
      [] OTHER -> Written(<<>>)

\* the record of an operation as LogStore::append_operation builds it:
\* write_serialized into a window of size() bytes
serialize(op) == write_serialized(op, Zeros(size(op)))

----------------------------------------------------------------------------
(* State engine (lib/src/state). *)

\* build_key without the ordering of the two indexes
build_key_Unordered(peer1, peer2) == <<peer1, peer2>>

\* Line::build_key: the u64 (first << 32) | second, kept as the pair <<first, second>>
build_key(peer1, peer2) ==
    IF peer1 < peer2 THEN <<peer1, peer2>> ELSE <<peer2, peer1>>

\* outcomes of validate
Ok == [kind |-> "ok", msg |-> "", n |-> 0]
Err(m) == [kind |-> "err", msg |-> m, n |-> 0]
ErrN(m, n) == [kind |-> "err", msg |-> m, n |-> n]
Panic(m) == [kind |-> "panic", msg |-> m, n |-> 0]

\* deltas.iter().position(|delta| delta.peer_idx == p), 0 when absent
DeltaPos(deltas, p) ==
    IF \E i \in 1..Len(deltas) : deltas[i].peer_idx = p
    THEN CHOOSE i \in 1..Len(deltas) :
            deltas[i].peer_idx = p /\ \A j \in 1..(i - 1) : deltas[j].peer_idx # p
    ELSE 0

\* position(..).unwrap_or_else(push a zero Delta); deltas[idx].delta += d
AddDelta(deltas, p, d) ==
    LET ds == IF DeltaPos(deltas, p) = 0
              THEN Append(deltas, [peer_idx |-> p, delta |-> 0]) ELSE deltas
        i == DeltaPos(ds, p)
    IN [ds EXCEPT ![i].delta = @ + d]

\* the credit check of one hop against its line (validate, Operation::Transfer)
can_send(line, hop) ==
    IF hop.from = line.peers[1]
    THEN line.trust[1] - line.balance
    ELSE line.trust[2] + line.balance

NotEnoughCredit(line, hop) == hop.to > can_send(line, hop)

RECURSIVE ValidateHops(_, _, _, _)
\* the loop over t.hops from hop i on: an error, or the deltas it accumulated
ValidateHops(st, hops, i, deltas) ==
    IF i > Len(hops) THEN [kind |-> "deltas", deltas |-> deltas]
    ELSE LET hop == hops[i] IN
         IF hop.amount = 0 THEN Err("hop can't have zero amount")
         ELSE IF build_key(hop.from, hop.to) \notin DOMAIN st.lines
              THEN Err("no line available for transfer")
         ELSE IF NotEnoughCredit(st.lines[build_key(hop.from, hop.to)], hop)
              THEN Err("not enough credit in line")
         ELSE ValidateHops(st, hops, i + 1,
                  AddDelta(AddDelta(deltas, hop.from, 0 - hop.amount), hop.to, hop.amount))

IsSender_Receiver(delta) == delta.delta > 0

\* the filter of senders: delta.delta < 0
IsSender(delta) == delta.delta < 0

\* the peers who lost money, in the order of deltas
Senders(deltas) == SelectSeq(deltas, IsSender)

HasSigOf(sigs, peer) == \E j \in 1..Len(sigs) : sigs[j].peer_idx = peer

RECURSIVE CheckSenders(_, _, _)
CheckSenders(senders, sigs, i) ==
    IF i > Len(senders) THEN Ok
    ELSE IF ~HasSigOf(sigs, senders[i].peer_idx)
         THEN ErrN("missing signature from sender", senders[i].peer_idx)
         ELSE CheckSenders(senders, sigs, i + 1)

RECURSIVE VerifySigs(_, _, _)
\* "verify all signatures": the result of key.verify is dropped (let _ = ...);
\* t.sighash() is evaluated for every signature whose key exists
VerifySigs(st, t, i) ==
    IF i > Len(t.sigs) THEN Ok
    ELSE IF t.sigs[i].peer_idx >= Len(st.keys) THEN Err("signing key doesn't exist")
    ELSE IF sighash(t).panic THEN Panic("index out of range in write_serialized")
    ELSE VerifySigs(st, t, i + 1)

\* validate's Trust arm without the comparison of the index of t.to with t.from
validate_trust_NoSelfCheck(st, t) ==
    IF t.from >= Len(st.keys) THEN Err("from key doesn't exist")
    ELSE IF sighash(t).panic THEN Panic("index out of range in write_serialized")
    ELSE Ok

\* validate_trust looking up t.from after the key of t.to was given its index
validate_trust_FromAfterPush(st, t) ==
    IF KeyBytes(t.to) \in DOMAIN st.key_indexes /\ st.key_indexes[KeyBytes(t.to)] = t.from
    THEN Err("can't trust yourself")
    ELSE IF t.from >= Len(st.keys) + (IF KeyBytes(t.to) \in DOMAIN st.key_indexes THEN 0 ELSE 1)
    THEN Err("from key doesn't exist")
    ELSE IF sighash(t).panic THEN Panic("index out of range in write_serialized")
    ELSE Ok

validate_trust(st, t) ==
    IF KeyBytes(t.to) \in DOMAIN st.key_indexes /\ st.key_indexes[KeyBytes(t.to)] = t.from
    THEN Err("can't trust yourself")
    ELSE IF t.from >= Len(st.keys) THEN Err("from key doesn't exist")
    ELSE IF sighash(t).panic THEN Panic("index out of range in write_serialized")
    \* let _ = key.verify(&t.sig, &t.sighash()): the result is dropped
    ELSE Ok

validate_transfer(st, t) ==
    LET h == ValidateHops(st, t.hops, 1, <<>>) IN
    IF h.kind # "deltas" THEN h
    ELSE LET s == CheckSenders(Senders(h.deltas), t.sigs, 1) IN
         IF s.kind # "ok" THEN s
         ELSE VerifySigs(st, t, 1)

\* cassis::state::validate
validate(st, op) ==
    CASE op.tag = "u" -> Err("Unknown shouldn't have been stored")
      [] op.tag = "t" -> validate_trust(st, op)
      [] op.tag = "x" -> validate_transfer(st, op)

\* process_trust taking the new key's index after the push instead of before
process_trust_IndexAfterPush(st, t) ==
    LET kb == KeyBytes(t.to)
        known == kb \in DOMAIN st.key_indexes
        to_idx == IF known THEN st.key_indexes[kb] ELSE Len(st.keys) + 1
        keys1 == IF known THEN st.keys ELSE Append(st.keys, t.to)
        idx1 == IF known THEN st.key_indexes
                ELSE [b \in DOMAIN st.key_indexes \cup {kb} |->
                         IF b = kb THEN to_idx ELSE st.key_indexes[b]]
        k == build_key(to_idx, t.from)
        line1 == IF k \in DOMAIN st.lines
                 THEN IF t.from < to_idx
                      THEN [st.lines[k] EXCEPT !.trust[1] = t.amount]
                      ELSE [st.lines[k] EXCEPT !.trust[2] = t.amount]
                 ELSE IF t.from < to_idx
                      THEN [peers |-> <<t.from, to_idx>>, trust |-> <<0, t.amount>>, balance |-> 0]
                      ELSE [peers |-> <<to_idx, t.from>>, trust |-> <<t.amount, 0>>, balance |-> 0]
    IN [keys |-> keys1, key_indexes |-> idx1,
        lines |-> [x \in DOMAIN st.lines \cup {k} |-> IF x = k THEN line1 ELSE st.lines[x]],
        panic |-> FALSE]

\* process_trust giving an existing line a fresh balance when its limit is set
process_trust_ResetsBalance(st, t) ==
    LET kb == KeyBytes(t.to)
        known == kb \in DOMAIN st.key_indexes
        to_idx == IF known THEN st.key_indexes[kb] ELSE Len(st.keys)
        keys1 == IF known THEN st.keys ELSE Append(st.keys, t.to)
        idx1 == IF known THEN st.key_indexes
                ELSE [b \in DOMAIN st.key_indexes \cup {kb} |->
                         IF b = kb THEN to_idx ELSE st.key_indexes[b]]
        k == build_key(to_idx, t.from)
        line1 == IF k \in DOMAIN st.lines
                 THEN IF t.from < to_idx
                      THEN [st.lines[k] EXCEPT !.trust[1] = t.amount, !.balance = 0]
                      ELSE [st.lines[k] EXCEPT !.trust[2] = t.amount, !.balance = 0]
                 ELSE IF t.from < to_idx
                      THEN [peers |-> <<t.from, to_idx>>, trust |-> <<0, t.amount>>, balance |-> 0]
                      ELSE [peers |-> <<to_idx, t.from>>, trust |-> <<t.amount, 0>>, balance |-> 0]
    IN [keys |-> keys1, key_indexes |-> idx1,
        lines |-> [x \in DOMAIN st.lines \cup {k} |-> IF x = k THEN line1 ELSE st.lines[x]],
        panic |-> FALSE]

\* process, Operation::Trust: the index of t.to, the key table and the line
process_trust(st, t) ==
    LET kb == KeyBytes(t.to)
        known == kb \in DOMAIN st.key_indexes
        to_idx == IF known THEN st.key_indexes[kb] ELSE Len(st.keys)
        keys1 == IF known THEN st.keys ELSE Append(st.keys, t.to)
        idx1 == IF known THEN st.key_indexes
                ELSE [b \in DOMAIN st.key_indexes \cup {kb} |->
                         IF b = kb THEN to_idx ELSE st.key_indexes[b]]
        k == build_key(to_idx, t.from)
        line1 == IF k \in DOMAIN st.lines
                 THEN IF t.from < to_idx
                      THEN [st.lines[k] EXCEPT !.trust[1] = t.amount]
                      ELSE [st.lines[k] EXCEPT !.trust[2] = t.amount]
                 ELSE IF t.from < to_idx
                      THEN [peers |-> <<t.from, to_idx>>, trust |-> <<0, t.amount>>, balance |-> 0]
                      ELSE [peers |-> <<to_idx, t.from>>, trust |-> <<t.amount, 0>>, balance |-> 0]
    IN [keys |-> keys1, key_indexes |-> idx1,
        lines |-> [x \in DOMAIN st.lines \cup {k} |-> IF x = k THEN line1 ELSE st.lines[x]],
        panic |-> FALSE]

\* the table key of a hop's line taken as (from << 32) | to, unordered
hop_line_key_Unordered(hop) == <<hop.from, hop.to>>

\* the table key process looks a hop's line up under: Line::build_key(hop.from, hop.to)
hop_line_key(hop) == build_key(hop.from, hop.to)

RECURSIVE process_hops(_, _, _)
\* process, Operation::Transfer: get_mut(..).expect(..) and the balance update, hop by hop
process_hops(st, hops, i) ==
    IF i > Len(hops) THEN st
    ELSE LET hop == hops[i]
             k == hop_line_key(hop)
         IN IF k \notin DOMAIN st.lines THEN [st EXCEPT !.panic = TRUE]
            ELSE process_hops(
                    [st EXCEPT !.lines[k].balance =
                        @ + (IF st.lines[k].peers[1] = hop.from
                             THEN hop.amount ELSE 0 - hop.amount)],
                    hops, i + 1)

\* cassis::state::process; panic is set when an expect failed on the way
process(st, op) ==
    CASE op.tag = "u" -> [st EXCEPT !.panic = FALSE]
      [] op.tag = "t" -> process_trust(st, op)
      [] op.tag = "x" -> process_hops([st EXCEPT !.panic = FALSE], op.hops, 1)

\* the State value held in the variables
State == [keys |-> keys, key_indexes |-> key_indexes, lines |-> lines, panic |-> FALSE]

\* the State that state::init builds before it replays the log
Bootstrap ==
    [keys |-> <<SERVER_KEY>>,
     key_indexes |-> [b \in {KeyBytes(SERVER_KEY)} |-> 0],
     lines |-> [k \in {} |-> 0],
     panic |-> FALSE]


----------------------------------------------------------------------------
(* Log store (registry/src/db.rs).  A store is the three files.  The mmap   *)
(* calls follow their use in db.rs: a read past the end of file is an       *)
(* error, append_with grows the file by zero bytes and hands the new region *)
(* to its writer, drop_from_tail cuts the tail.                             *)

Store == [offset |-> offset_file, log |-> log_file, hash |-> hash_file]

EmptyStore == [offset |-> <<>>, log |-> <<>>, hash |-> <<>>]

\* Mmap::read / read_with(offset, len) succeeds
CanRead(file, offset, len) == offset + len <= Len(file)

ReadAt(file, offset, len) == SubSeq(file, offset + 1, offset + len)

\* Mmap::drop_from_tail(n)
DropFromTail(file, n) == SubSeq(file, 1, Len(file) - n)

\* the record that append_operation writes into the region of 2 + op.size() bytes
WriteRecord(op) ==
    LET w == write_serialized(op, Zeros(size(op))) IN
    [panic |-> w.panic, bytes |-> LE16(size(op)) \o w.buf]

\* LogStore::append_operation.  io names the write that fails with an IO error
\* ("none": no failure).  outcome: "ok", "io error" (returned by ?), or "panic"
\* (write_serialized went out of the region; the file stays grown).
append_operation(store, op, io) ==
    IF io = "offset" THEN [store |-> store, outcome |-> "io error"]
    ELSE LET s1 == [store EXCEPT !.offset = @ \o LE32(Len(store.log))] IN
    IF io = "log" THEN [store |-> s1, outcome |-> "io error"]
    ELSE LET rec == WriteRecord(op)
             s2 == [s1 EXCEPT !.log = @ \o rec.bytes]
         IN
    IF rec.panic THEN [store |-> s2, outcome |-> "panic"]
    ELSE IF io = "hash" THEN [store |-> s2, outcome |-> "io error"]
    ELSE [store |-> [s2 EXCEPT !.hash = @ \o DigestBytes(SHA256(SubSeq(rec.bytes, 3, Len(rec.bytes))))],
          outcome |-> "ok"]

\* what Mmap::drop_from_tail(n) does to a file shorter than n: it leaves the
\* file as it is, or it computes the new length as the caller computed n,
\* wrapping (the file grows by 2^64 - n zero bytes) or saturating (the file
\* is emptied).  The crate is not part of the repository.
DropOutcomes == {"refused", "wrapped", "emptied"}

\* Mmap::drop_from_tail(n) for n = 2^64 - excess, larger than the file
DropTooMany(file, excess, drop) ==
    CASE drop = "refused" -> file
      [] drop = "wrapped" -> file \o Zeros(excess)
      [] drop = "emptied" -> <<>>

\* LogStore::check_and_heal.  Every `?` inside the block leaves the function
\* with the error, so the loop body runs once.  checked tells whether the build
\* panics on integer overflow (debug) or wraps (release); a wrapped, huge
\* argument makes the read fail, drop tells what it makes of drop_from_tail,
\* and the result of drop_from_tail is not looked at.
check_and_heal(store, checked, drop) ==
    LET size0 == Len(store.offset)
        offsetlen == IF size0 % 4 # 0 THEN size0 - 1 ELSE size0
    IN
    IF offsetlen \div 4 = 0
    THEN \* offsetlen / 4 - 1 underflows
         [store |-> store, outcome |-> IF checked THEN "panic" ELSE "err"]
    ELSE LET offset == ReadLE32(ReadAt(store.offset, (offsetlen \div 4 - 1) * 4, 4)) IN
    IF ~CanRead(store.log, offset, 2)
    THEN [store |-> store, outcome |-> "err"]
    ELSE LET op_size == ReadLE16(ReadAt(store.log, offset, 2))
             loglen == offset + 2 + op_size
         IN
    IF ~CanRead(store.log, offset + 2, op_size)
    THEN [store |-> store, outcome |-> "err"]
    ELSE LET s1 == [store EXCEPT !.offset = DropFromTail(@, size0 - offsetlen)] IN
    IF Len(s1.offset) < loglen /\ checked
    THEN \* self.offset_mmap.size - loglen underflows
         [store |-> s1, outcome |-> "panic"]
    ELSE LET n == Len(s1.offset) - loglen
             s2 == IF n >= 0 /\ n <= Len(s1.log)
                   THEN [s1 EXCEPT !.log = DropFromTail(@, n)]
                   ELSE IF n < 0 THEN [s1 EXCEPT !.log = DropTooMany(@, -n, drop)]
                   ELSE s1
         IN
    IF Len(s2.hash) # (offsetlen \div 4) * 32
    THEN [store |-> s2, outcome |-> "panic"]
    ELSE [store |-> s2, outcome |-> "ok"]

RECURSIVE replay(_, _, _)
\* for op in ls.iter() { process(&mut state, &op) }: LogStoreIter::next reads the
\* record at offset and stops at the first read that fails
replay(log, offset, st) ==
    IF ~CanRead(log, offset, 2) THEN st
    ELSE LET sz == ReadLE16(ReadAt(log, offset, 2)) IN
         IF ~CanRead(log, offset + 2, sz) THEN st
         ELSE LET d == deserialize(ReadAt(log, offset + 2, sz)) IN
              IF d.panic THEN [st EXCEPT !.panic = TRUE]
              ELSE LET st1 == process(st, d.op) IN
                   IF st1.panic THEN st1 ELSE replay(log, offset + 2 + sz, st1)

\* background::state::init
init(store) == replay(store.log, 0, Bootstrap)

\* the outcome of a read of the log: an operation, an error, or a panic in deserialize
ReadOk(op) == [kind |-> "ok", op |-> op]
ReadErr == [kind |-> "err", op |-> [tag |-> "u"]]
ReadPanic == [kind |-> "panic", op |-> [tag |-> "u"]]

\* LogStore::read_operation_at_offset, without the next offset
read_operation_at_offset(store, offset) ==
    IF ~CanRead(store.log, offset, 2) THEN ReadErr
    ELSE LET sz == ReadLE16(ReadAt(store.log, offset, 2)) IN
         IF ~CanRead(store.log, offset + 2, sz) THEN ReadErr
         ELSE LET d == deserialize(ReadAt(store.log, offset + 2, sz)) IN
              IF d.panic THEN ReadPanic ELSE ReadOk(d.op)

\* LogStore::read_operation: get_offset_for_idx(idx)?, then the record at that offset
read_operation(store, idx) ==
    IF ~CanRead(store.offset, idx * 4, 4) THEN ReadErr
    ELSE read_operation_at_offset(store, ReadLE32(ReadAt(store.offset, idx * 4, 4)))

\* Option<u32>
None == <<>>
Some(v) == <<v>>

\* LogStore::get_offset_for_idx
get_offset_for_idx(store, idx) ==
    IF ~CanRead(store.offset, idx * 4, 4) THEN [kind |-> "err", offset |-> 0]
    ELSE [kind |-> "ok", offset |-> ReadLE32(ReadAt(store.offset, idx * 4, 4))]

\* LogStore::range of start..end: start is Unbounded (None) or Included(idx), end
\* is Unbounded (None) or Excluded(idx), which is resolved with idx + 1
range(store, start, end) ==
    LET s == IF start = None THEN [kind |-> "ok", offset |-> 0]
             ELSE get_offset_for_idx(store, start[1])
        e == IF end = None THEN [kind |-> "ok", offset |-> 0]
             ELSE get_offset_for_idx(store, end[1] + 1)
    IN IF s.kind = "err" \/ e.kind = "err"
       THEN [kind |-> "err", offset |-> 0, offset_end |-> None]
       ELSE [kind |-> "ok", offset |-> s.offset,
             offset_end |-> IF end = None THEN None ELSE Some(e.offset)]

RECURSIVE collect(_, _, _)
\* range.collect(): LogStoreIter::next until it returns None, which it does at
\* offset_end and at the first read that fails
collect(store, offset, offset_end) ==
    IF Some(offset) = offset_end THEN [panic |-> FALSE, ops |-> <<>>]
    ELSE LET r == read_operation_at_offset(store, offset) IN
         IF r.kind = "err" THEN [panic |-> FALSE, ops |-> <<>>]
         ELSE IF r.kind = "panic" THEN [panic |-> TRUE, ops |-> <<>>]
         ELSE LET rest == collect(store,
                                  offset + 2 + ReadLE16(ReadAt(store.log, offset, 2)),
                                  offset_end)
              IN [panic |-> rest.panic, ops |-> <<r.op>> \o rest.ops]

----------------------------------------------------------------------------
(* The operations submitted by callers. *)

PeerIdxs == 0..NKeys          \* NKeys itself is never a valid index

Peers == 0..(NKeys - 1)

TrustAmounts == {0, MaxAmount}

HopAmounts == {0, 1, MaxAmount + 1}

\* Trust::new_with_time with the secret of key signer: build, then sign the sighash
NewTrust(signer, from, to, amount) ==
    LET t == [tag |-> "t", ts |-> 1, from |-> from, to |-> to, amount |-> amount,
              sig |-> NoSig]
    IN [t EXCEPT !.sig = Sign(signer, sighash(t).digest)]

\* Trusts are signed by the server key or by the last key, whoever the truster is
Signers == {SERVER_KEY, 3}

Hop(from, to, amount) == [from |-> from, to |-> to, amount |-> amount]

\* pairs of distinct peers
Legs == {x \in Peers \X Peers : x[1] # x[2]}

\* a -> b -> c, where c may be a again
Chains == {x \in Peers \X Peers \X Peers : x[1] # x[2] /\ x[2] # x[3]}

\* a -> b -> c -> a over three peers
Cycles == {x \in Chains : x[3] # x[1]}

\* no hop; one hop between two peers, from a peer to itself or to an unknown index;
\* the same hop twice; a chain of two hops; a cycle of three hops
HopLists ==
    {<<>>}
    \cup {<<Hop(x[1], x[2], a)>> : x \in Legs \cup {<<0, 0>>, <<0, NKeys>>}, a \in HopAmounts}
    \cup {<<Hop(x[1], x[2], a), Hop(x[1], x[2], a)>> : x \in Legs, a \in {1, MaxAmount + 1}}
    \cup {<<Hop(x[1], x[2], a), Hop(x[2], x[3], a)>> : x \in Chains, a \in {1, MaxAmount + 1}}
    \cup {<<Hop(x[1], x[2], a), Hop(x[2], x[3], a), Hop(x[3], x[1], a)>> :
            x \in Cycles, a \in {1, MaxAmount + 1}}

\* the bytes a Transfer's signers are meant to sign: header and hops
TransferSignedBytes(ts, hops) ==
    Transfer_write_serialized([tag |-> "x", ts |-> ts, hops |-> hops, sigs |-> <<>>],
                              Zeros(7 + Len(hops) * HOP_SIZE)).buf

\* no signature, a zero signature of index 0 or of an unknown index, or the
\* server's signature at index 0
SigLists(hops) ==
    {<<>>}
    \cup {<<[peer_idx |-> p, sig |-> NoSig]>> : p \in {0, NKeys}}
    \cup {<<[peer_idx |-> 0, sig |-> Sign(SERVER_KEY, SHA256(TransferSignedBytes(1, hops)))]>>}

NewTransfer(hops, sigs) == [tag |-> "x", ts |-> 1, hops |-> hops, sigs |-> sigs]

Unknown == [tag |-> "u"]

Abs(x) == IF x < 0 THEN 0 - x ELSE x

\* the model stops submitting Transfers that would take a balance past MaxBalance
WithinBalance(st) == \A k \in DOMAIN st.lines : Abs(st.lines[k].balance) <= MaxBalance

----------------------------------------------------------------------------
(* The state engine on its own: a caller that gates process by validate,     *)
(* as the registry does on its write path.                                   *)

\* whether every signature op carries verifies against the key at its index
SigsVerify(st, op) ==
    CASE op.tag = "t" ->
            /\ op.from < Len(st.keys)
            /\ ~sighash(op).panic
            /\ verify(st.keys[op.from + 1], op.sig, sighash(op).digest)
      [] op.tag = "x" ->
            \A i \in 1..Len(op.sigs) :
                /\ op.sigs[i].peer_idx < Len(st.keys)
                /\ ~sighash(op).panic
                /\ verify(st.keys[op.sigs[i].peer_idx + 1], op.sigs[i].sig, sighash(op).digest)
      [] OTHER -> TRUE

\* the record of a step: the request, what validate answered, whether the
\* request's signatures verified, where the log write failed, the reply
Step(act, st, op, res, io, reply) ==
    [act |-> act, tag |-> op.tag, res |-> res, sigs_ok |-> SigsVerify(st, op),
     nsigs |-> IF op.tag = "x" THEN Len(op.sigs) ELSE 0,
     io |-> io, reply |-> reply]

\* broadcast::channel::<serde_json::Value>(12)
TAIL_CAPACITY == 12

RECURSIVE next_power_of_two(_, _)
\* the smallest power of two that is at least n, from p up
next_power_of_two(n, p) == IF p >= n THEN p ELSE next_power_of_two(n, 2 * p)

\* a channel that rounds its capacity down to a power of two
Slots_RoundedDown == next_power_of_two(TAIL_CAPACITY, 1) \div 2

\* the slots of the broadcast channel: it rounds its capacity up to a power of two
Slots == next_power_of_two(TAIL_CAPACITY, 1)

\* serde_json::to_value(op): the tagged object, keys and signatures as hex strings
ToValue(op) ==
    CASE op.tag = "t" ->
            [tag |-> "t", ts |-> op.ts, from |-> op.from, to |-> KeyBytes(op.to),
             amount |-> op.amount, sig |-> SigBytes(op.sig)]
      [] op.tag = "x" ->
            [tag |-> "x", ts |-> op.ts, hops |-> op.hops,
             sigs |-> [i \in 1..Len(op.sigs) |->
                          [peer_idx |-> op.sigs[i].peer_idx, sig |-> SigBytes(op.sigs[i].sig)]]]
      [] OTHER -> [tag |-> "u"]

\* a slot of the channel that was never written
NoSlot == [pos |-> -1, value |-> [tag |-> "u"]]

\* a client that has not asked for the live tail
NoSubscriber == [st |-> "none", from |-> 0, next |-> 0, got |-> <<>>]

\* the HTTP boundary before any request: an empty log table, no handler in
\* progress, nothing sent on the channel
NoHttp ==
    [table |-> <<>>, op_serial |-> 0, pc |-> "idle", op |-> Unknown, reply |-> "none",
     handled |-> <<>>, writes |-> <<>>, applied |-> <<>>, published |-> <<>>,
     ring |-> [i \in 0..(Slots - 1) |-> NoSlot], sub |-> NoSubscriber]

\* the channel of a model that has no callers
NoChan ==
    [reqs |-> <<>>, queue |-> <<>>, cur |-> 0, pc |-> "idle",
     resp |-> [kind |-> "none", val |-> 0], events |-> <<>>]

NoRequest ==
    [act |-> "none", tag |-> "u", res |-> Ok, sigs_ok |-> TRUE, nsigs |-> 0,
     io |-> "none", reply |-> "none"]

LibInit ==
    /\ keys = Bootstrap.keys
    /\ key_indexes = Bootstrap.key_indexes
    /\ lines = Bootstrap.lines
    /\ offset_file = <<>>
    /\ log_file = <<>>
    /\ hash_file = <<>>
    /\ thread = "none"
    /\ io_errors = 0
    /\ last = NoRequest
    /\ chan = NoChan
    /\ http = NoHttp

\* validate(&state, &op), and process(&mut state, &op) when it returned Ok;
\* a rejected operation changes nothing
ValidateThenProcess(op) ==
    LET res == validate(State, op) IN
    IF res.kind = "ok"
    THEN LET st == process(State, op) IN
         /\ WithinBalance(st)
         /\ ~st.panic
         /\ keys' = st.keys
         /\ key_indexes' = st.key_indexes
         /\ lines' = st.lines
         /\ last' = Step("process", State, op, res, "none", "none")
         /\ UNCHANGED <<offset_file, log_file, hash_file, thread, io_errors, chan, http>>
    ELSE UNCHANGED vars

LibTrust ==
    \E s \in Signers, f \in PeerIdxs, k \in KeyIds, a \in TrustAmounts :
        ValidateThenProcess(NewTrust(s, f, k, a))

LibTransfer ==
    \E h \in HopLists : \E s \in SigLists(h) : ValidateThenProcess(NewTransfer(h, s))

LibUnknown == ValidateThenProcess(Unknown)

LibNext == LibTrust \/ LibTransfer \/ LibUnknown

SpecLib == LibInit /\ [][LibNext]_vars

----------------------------------------------------------------------------
(* The single-writer coordinator (registry/src/background/mod.rs) over a    *)
(* store directory.  The directory the process is started on is an input:   *)
(* it is empty, or holds what complete appends left in it.                  *)

\* the store after the operations ops were appended to s, one complete append each
RECURSIVE StoreAfter(_, _, _)
StoreAfter(s, ops, i) ==
    IF i > Len(ops) THEN s
    ELSE StoreAfter(append_operation(s, ops[i], "none").store, ops, i + 1)

\* the server's first Trust, to key 2
FirstTrust == NewTrust(SERVER_KEY, 0, 2, MaxAmount)

InitialStores == {EmptyStore, StoreAfter(EmptyStore, <<FirstTrust>>, 1)}

Init ==
    /\ keys = Bootstrap.keys
    /\ key_indexes = Bootstrap.key_indexes
    /\ lines = Bootstrap.lines
    /\ \E s \in InitialStores :
        /\ offset_file = s.offset
        /\ log_file = s.log
        /\ hash_file = s.hash
    /\ thread = "down"
    /\ io_errors = 0
    /\ last = NoRequest
    /\ chan = NoChan
    /\ http = NoHttp

\* start(pk): LogStore::init, check_and_heal().expect(..), state::init(..).expect(..)
Start ==
    /\ thread \in {"down", "dead", "failed"}
    /\ \E checked \in BOOLEAN, drop \in DropOutcomes :
        LET h == check_and_heal(Store, checked, drop)
            st == IF h.outcome = "ok" THEN init(h.store) ELSE Bootstrap
            up == h.outcome = "ok" /\ ~st.panic
        IN /\ drop = "wrapped" => Len(log_file) <= MaxLog * (2 + TRUST_SIZE)
           /\ offset_file' = h.store.offset
           /\ log_file' = h.store.log
           /\ hash_file' = h.store.hash
           /\ thread' = IF up THEN "running" ELSE "failed"
           /\ keys' = IF up THEN st.keys ELSE Bootstrap.keys
           /\ key_indexes' = IF up THEN st.key_indexes ELSE Bootstrap.key_indexes
           /\ lines' = IF up THEN st.lines ELSE Bootstrap.lines
           /\ io_errors' = 0
           /\ UNCHANGED <<chan, http>>
           /\ last' = [NoRequest EXCEPT
                         !.act = "start",
                         !.res = IF up THEN Ok
                                 ELSE IF h.outcome = "err"
                                      THEN Err("failed to check and heal logstore")
                                      ELSE Panic("startup"),
                         !.reply = IF up THEN "started" ELSE "none"]

WritesLog_Always(res) == TRUE

\* validate gates the log write: Err(err) => return Err(err)
WritesLog(res) == res.kind = "ok"

\* process runs after append_operation whatever it returned: its result is
\* mapped to a Response that is dropped
RunsProcess(res, outcome) == res.kind = "ok" /\ outcome # "panic"

\* the serializer handles Request::AppendOperation(op); io is the write of
\* append_operation that fails with an IO error, if any.  When validate returns
\* an error the thread's closure returns it, and when a call panics the thread
\* dies: either way nothing is sent on the reply channel.
AppendOperation(op, io) ==
    /\ thread = "running"
    /\ Len(offset_file) < 4 * MaxLog
    /\ io # "none" => io_errors < MaxIoErrors
    /\ LET res == validate(State, op)
           a == IF WritesLog(res) THEN append_operation(Store, op, io)
                ELSE [store |-> Store, outcome |-> "none"]
           st == IF RunsProcess(res, a.outcome) THEN process(State, op) ELSE State
           alive == res.kind = "ok" /\ a.outcome # "panic" /\ ~st.panic
       IN /\ (io = "none") = (a.outcome # "io error")
          /\ WithinBalance(st)
          /\ offset_file' = a.store.offset
          /\ log_file' = a.store.log
          /\ hash_file' = a.store.hash
          /\ keys' = st.keys
          /\ key_indexes' = st.key_indexes
          /\ lines' = st.lines
          /\ thread' = IF alive THEN "running" ELSE "dead"
          /\ io_errors' = IF io = "none" THEN io_errors ELSE io_errors + 1
          /\ UNCHANGED <<chan, http>>
          /\ last' = Step("append", State, op,
                          IF a.outcome = "panic" THEN Panic("append_operation") ELSE res,
                          io, IF alive THEN "OK" ELSE "none")

IoPoints == {"none", "offset", "log", "hash"}

AppendTrust ==
    \E s \in Signers, f \in PeerIdxs, k \in KeyIds, a \in TrustAmounts, io \in IoPoints :
        AppendOperation(NewTrust(s, f, k, a), io)

AppendTransfer ==
    \E h \in HopLists : \E s \in SigLists(h), io \in IoPoints :
        AppendOperation(NewTransfer(h, s), io)

AppendUnknown == AppendOperation(Unknown, "none")

\* how many bytes of the record reached the log file when the process died
TornLens == {1, 2, 50}

\* the process dies inside append_operation(op): after the offset write
\* ("offset"), with part of the record in the file ("record"), or after the
\* record and before the hash write ("hash")
CrashInAppend ==
    /\ thread = "running"
    /\ Len(offset_file) < 4 * MaxLog
    /\ \E s \in Signers, f \in PeerIdxs, k \in KeyIds, a \in TrustAmounts,
          point \in {"offset", "record", "hash"}, j \in TornLens :
        LET op == NewTrust(s, f, k, a)
            rec == WriteRecord(op).bytes
        IN /\ validate(State, op).kind = "ok"
           /\ point # "record" => j = 1
           /\ offset_file' = offset_file \o LE32(Len(log_file))
           /\ log_file' = CASE point = "offset" -> log_file
                            [] point = "record" -> log_file \o SubSeq(rec, 1, j)
                            [] point = "hash" -> log_file \o rec
           /\ last' = Step("crash", State, op, Ok, point, "none")
    /\ thread' = "down"
    /\ UNCHANGED <<keys, key_indexes, lines, hash_file, io_errors, chan, http>>

\* the process dies inside the offset write of append_operation: j of the
\* four bytes of the offset reached the file, the log and the hashes are as
\* they were
CrashInOffsetWrite ==
    /\ thread = "running"
    /\ Len(offset_file) < 4 * MaxLog
    /\ \E j \in 1..3 : offset_file' = offset_file \o SubSeq(LE32(Len(log_file)), 1, j)
    /\ last' = [NoRequest EXCEPT !.act = "crash", !.io = "torn offset"]
    /\ thread' = "down"
    /\ UNCHANGED <<keys, key_indexes, lines, log_file, hash_file, io_errors, chan, http>>

\* the process is stopped between two requests
Kill ==
    /\ thread = "running"
    /\ thread' = "down"
    /\ last' = [NoRequest EXCEPT !.act = "kill"]
    /\ UNCHANGED <<keys, key_indexes, lines, offset_file, log_file, hash_file, io_errors, chan, http>>

\* the three files agree and hold n >= 1 whole entries
StoreComplete(s) ==
    /\ Len(s.offset) % 4 = 0
    /\ Len(s.offset) >= 4
    /\ Len(s.hash) = (Len(s.offset) \div 4) * 32
    /\ LET offset == ReadLE32(ReadAt(s.offset, Len(s.offset) - 4, 4)) IN
       /\ CanRead(s.log, offset, 2)
       /\ Len(s.log) = offset + 2 + ReadLE16(ReadAt(s.log, offset, 2))

TruncateBy == {5, 60}

\* while the process is down, the log file loses n bytes of its last payload
TruncateLog ==
    /\ thread = "down"
    /\ StoreComplete(Store)
    /\ \E n \in TruncateBy :
        /\ n < TRUST_SIZE
        /\ log_file' = DropFromTail(log_file, n)
    /\ last' = [NoRequest EXCEPT !.act = "truncate"]
    /\ UNCHANGED <<keys, key_indexes, lines, offset_file, hash_file, thread, io_errors, chan, http>>

Next ==
    \/ Start
    \/ AppendTrust
    \/ AppendTransfer
    \/ AppendUnknown
    \/ CrashInAppend
    \/ CrashInOffsetWrite
    \/ Kill
    \/ TruncateLog

Spec == Init /\ [][Next]_vars

----------------------------------------------------------------------------
(* The request channel (registry/src/background/mod.rs): callers send        *)
(* (reply sender, Request) on the mpsc channel and wait on their oneshot     *)
(* receiver; the serializer thread takes the requests one by one.  The       *)
(* handling of a request is split at every call it makes, so that callers    *)
(* act between any two of them.                                              *)

Callers == {1, 2}

MaxRequests == 3    \* requests submitted in one run

\* Request::AppendOperation(op), ReadOperation(id), GetKeyID(pubkey), GetLines
AppendReq(op) == [kind |-> "append", op |-> op, arg |-> 0]
ReadReq(id) == [kind |-> "read", op |-> Unknown, arg |-> id]
KeyIdReq(k) == [kind |-> "keyid", op |-> Unknown, arg |-> k]
LinesReq == [kind |-> "lines", op |-> Unknown, arg |-> 0]

\* Request::ListOperations(from, to), both Option<u32>
ListReq(from, to) == [kind |-> "list", op |-> Unknown, arg |-> 0, from |-> from, to |-> to]

\* the default length of a listing
LIST_WINDOW == 50

\* the match on (from, to): the range handed to LogStore::range.  to - 50 is a
\* u32 subtraction: below 50 it panics when overflow is checked and wraps to
\* an index near 2^32 when it is not
ListBounds(from, to, checked) ==
    CASE from = None /\ to = None ->
            [kind |-> "ok", start |-> None, end |-> Some(LIST_WINDOW)]
      [] from # None /\ to = None ->
            [kind |-> "ok", start |-> from, end |-> Some(from[1] + LIST_WINDOW)]
      [] from = None /\ to # None ->
            IF to[1] < LIST_WINDOW
            THEN [kind |-> IF checked THEN "panic" ELSE "wrapped", start |-> None, end |-> to]
            ELSE [kind |-> "ok", start |-> Some(to[1] - LIST_WINDOW), end |-> to]
      [] OTHER ->
            [kind |-> "ok", start |-> from, end |-> to]

\* the arm of Request::ListOperations: range, collect into Response::Operations,
\* then map_or_else(|e| Response::Error(e), |_| Response::OK).  collected is the
\* vector the dropped Response::Operations held
ListOperations(store, from, to, checked) ==
    LET b == ListBounds(from, to, checked)
        r == IF b.kind = "ok" THEN range(store, b.start, b.end)
             ELSE [kind |-> "err", offset |-> 0, offset_end |-> None]
        c == IF r.kind = "ok" THEN collect(store, r.offset, r.offset_end)
             ELSE [panic |-> FALSE, ops |-> <<>>]
    IN IF b.kind = "panic" \/ c.panic THEN [kind |-> "panic", collected |-> <<>>]
       ELSE IF r.kind = "err" THEN [kind |-> "Error", collected |-> <<>>]
       ELSE [kind |-> "OK", collected |-> c.ops]

\* the server trusts key 3; the server trusts itself
SecondTrust == NewTrust(SERVER_KEY, 0, 3, MaxAmount)
SelfTrust == NewTrust(SERVER_KEY, 0, SERVER_KEY, MaxAmount)

\* listings of [0, 1), of the first window, of the window from 0 and of the window to 1
ListRequests ==
    {ListReq(Some(0), Some(1)), ListReq(None, None), ListReq(Some(0), None), ListReq(None, Some(1))}

Requests ==
    {AppendReq(SecondTrust), AppendReq(SelfTrust), ReadReq(1), KeyIdReq(3), LinesReq}
        \cup ListRequests

\* Response
NoReply == [kind |-> "none", val |-> 0]
Reply(kind, val) == [kind |-> kind, val |-> val]

\* the store the coordinator of this specification was started on
ChanStore == StoreAfter(EmptyStore, <<FirstTrust>>, 1)

ChanInit ==
    /\ keys = init(ChanStore).keys
    /\ key_indexes = init(ChanStore).key_indexes
    /\ lines = init(ChanStore).lines
    /\ offset_file = ChanStore.offset
    /\ log_file = ChanStore.log
    /\ hash_file = ChanStore.hash
    /\ thread = "running"
    /\ io_errors = 0
    /\ last = NoRequest
    /\ chan = NoChan
    /\ http = NoHttp

\* caller c has a request it has no reply for (it waits, or it panicked)
Busy(c) == \E i \in 1..Len(chan.reqs) : chan.reqs[i].from = c /\ chan.reqs[i].st # "replied"

\* Requester::request: send((tx, req)) and rx.await.  When the thread is gone
\* the receiver is dropped, send fails and expect panics in the caller.
Submit(c, r) ==
    /\ Len(chan.reqs) < MaxRequests
    /\ ~Busy(c)
    /\ LET n == Len(chan.reqs) + 1
           new == [from |-> c, req |-> r, reply |-> NoReply, pos |-> -1, rx |-> TRUE,
                   st |-> IF thread = "running" THEN "queued" ELSE "refused"]
       IN chan' = [chan EXCEPT !.reqs = Append(@, new),
                               !.queue = IF thread = "running" THEN Append(@, n) ELSE @]
    /\ UNCHANGED <<keys, key_indexes, lines, offset_file, log_file, hash_file, thread,
                   io_errors, last, http>>

\* for req in rx: the next request leaves the queue
Recv ==
    /\ thread = "running"
    /\ chan.pc = "idle"
    /\ chan.queue # <<>>
    /\ LET n == Head(chan.queue) IN
       chan' = [chan EXCEPT !.queue = Tail(@), !.cur = n, !.pc = "got",
                            !.reqs[n].st = "handling"]
    /\ UNCHANGED <<keys, key_indexes, lines, offset_file, log_file, hash_file, thread,
                   io_errors, last, http>>

\* the thread's closure returned or panicked: rx and every reply sender it
\* held are dropped, so rx.await fails in every caller that waits
Gone(ch) ==
    [ch EXCEPT !.reqs = [i \in 1..Len(ch.reqs) |->
                            IF ch.reqs[i].st \in {"queued", "handling"}
                            THEN [ch.reqs[i] EXCEPT !.st = "lost"] ELSE ch.reqs[i]],
               !.queue = <<>>, !.cur = 0, !.pc = "idle"]

\* the operation of the request in hand
CurOp == chan.reqs[chan.cur].req.op

\* cassis::state::validate(&state, &op); Err(err) => return Err(err)
ChanValidate ==
    /\ thread = "running"
    /\ chan.pc = "got"
    /\ chan.reqs[chan.cur].req.kind = "append"
    /\ LET ev == [chan EXCEPT !.events = Append(@, <<chan.cur, "validate">>)] IN
       IF validate(State, CurOp).kind = "ok"
       THEN /\ chan' = [ev EXCEPT !.pc = "validated"]
            /\ UNCHANGED thread
       ELSE /\ chan' = Gone(ev)
            /\ thread' = "dead"
    /\ UNCHANGED <<keys, key_indexes, lines, offset_file, log_file, hash_file, io_errors, last, http>>

\* ls.append_operation(&op); its result is dropped
ChanAppend ==
    /\ thread = "running"
    /\ chan.pc = "validated"
    /\ \E io \in IoPoints :
        LET a == append_operation(Store, CurOp, io)
            ev == [chan EXCEPT !.events = Append(@, <<chan.cur, "append">>)]
        IN /\ io # "none" => io_errors < MaxIoErrors
           /\ (io = "none") = (a.outcome # "io error")
           /\ offset_file' = a.store.offset
           /\ log_file' = a.store.log
           /\ hash_file' = a.store.hash
           /\ io_errors' = IF io = "none" THEN io_errors ELSE io_errors + 1
           /\ IF a.outcome = "panic"
              THEN chan' = Gone(ev) /\ thread' = "dead"
              ELSE /\ chan' = [ev EXCEPT
                                !.pc = "appended",
                                !.reqs[chan.cur].pos =
                                    IF a.outcome = "ok" THEN Len(offset_file) \div 4 ELSE -1]
                   /\ UNCHANGED thread
    /\ UNCHANGED <<keys, key_indexes, lines, last, http>>

\* cassis::state::process(&mut state, &op); Response::OK
ChanProcess ==
    /\ thread = "running"
    /\ chan.pc = "appended"
    /\ LET st == process(State, CurOp)
           ev == [chan EXCEPT !.events = Append(@, <<chan.cur, "process">>)]
       IN /\ keys' = st.keys
          /\ key_indexes' = st.key_indexes
          /\ lines' = st.lines
          /\ IF st.panic
             THEN chan' = Gone(ev) /\ thread' = "dead"
             ELSE /\ chan' = [ev EXCEPT !.pc = "handled", !.resp = Reply("OK", 0)]
                  /\ UNCHANGED thread
    /\ UNCHANGED <<offset_file, log_file, hash_file, io_errors, last, http>>

\* the arms of ListOperations, ReadOperation, GetKeyID and GetLines
ChanAnswer ==
    /\ thread = "running"
    /\ chan.pc = "got"
    /\ chan.reqs[chan.cur].req.kind # "append"
    /\ \E checked \in BOOLEAN :
       LET r == chan.reqs[chan.cur].req
           rd == read_operation(Store, r.arg)
           ls == ListOperations(Store, r.from, r.to, checked)
       IN CASE r.kind = "list" /\ ls.kind = "panic" ->
                    chan' = Gone(chan) /\ thread' = "dead"
            [] r.kind = "list" /\ ls.kind # "panic" ->
                    /\ chan' = [chan EXCEPT
                                  !.pc = "handled",
                                  !.resp = IF ls.kind = "OK" THEN Reply("OK", 0)
                                           ELSE Reply("Error", "failed to read offset_file")]
                    /\ UNCHANGED thread
            [] r.kind = "read" /\ rd.kind = "panic" ->
                    chan' = Gone(chan) /\ thread' = "dead"
            [] r.kind = "read" /\ rd.kind # "panic" ->
                    /\ chan' = [chan EXCEPT
                                  !.pc = "handled",
                                  !.resp = IF rd.kind = "ok" THEN Reply("Operation", rd.op)
                                           ELSE Reply("Error", "not found")]
                    /\ UNCHANGED thread
            [] r.kind = "keyid" ->
                    /\ chan' = [chan EXCEPT
                                  !.pc = "handled",
                                  !.resp = IF KeyBytes(r.arg) \in DOMAIN key_indexes
                                           THEN Reply("KeyIdx", key_indexes[KeyBytes(r.arg)])
                                           ELSE Reply("Error", "not found")]
                    /\ UNCHANGED thread
            [] r.kind = "lines" ->
                    /\ chan' = [chan EXCEPT
                                  !.pc = "handled",
                                  !.resp = Reply("Lines", {lines[k] : k \in DOMAIN lines})]
                    /\ UNCHANGED thread
    /\ UNCHANGED <<keys, key_indexes, lines, offset_file, log_file, hash_file, io_errors, last, http>>

\* req.0.send(resp).expect("failed to send response back"): the caller's
\* rx.await returns the Response; when the caller dropped rx, send returns Err
\* and expect panics in the thread
ChanReply ==
    /\ thread = "running"
    /\ chan.pc = "handled"
    /\ IF chan.reqs[chan.cur].rx
       THEN /\ chan' = [chan EXCEPT !.reqs[chan.cur].reply = chan.resp,
                                    !.reqs[chan.cur].st = "replied",
                                    !.cur = 0, !.pc = "idle", !.resp = NoReply]
            /\ UNCHANGED thread
       ELSE /\ chan' = Gone([chan EXCEPT !.resp = NoReply])
            /\ thread' = "dead"
    /\ UNCHANGED <<keys, key_indexes, lines, offset_file, log_file, hash_file,
                   io_errors, last, http>>

\* the future of Requester::request is dropped while it awaits rx: the
\* request stays in the queue or in the thread's hands, its receiver is gone
Cancel(c) ==
    /\ \E n \in 1..Len(chan.reqs) :
          /\ chan.reqs[n].from = c
          /\ chan.reqs[n].st \in {"queued", "handling"}
          /\ chan.reqs[n].rx
          /\ chan' = [chan EXCEPT !.reqs[n].rx = FALSE]
    /\ UNCHANGED <<keys, key_indexes, lines, offset_file, log_file, hash_file, thread,
                   io_errors, last, http>>

ChanSubmit == \E c \in Callers, r \in Requests : Submit(c, r)

ChanCancel == \E c \in Callers : Cancel(c)

ChanNext ==
    \/ ChanSubmit
    \/ Recv
    \/ ChanValidate
    \/ ChanAppend
    \/ ChanProcess
    \/ ChanAnswer
    \/ ChanReply
    \/ ChanCancel

SpecChan == ChanInit /\ [][ChanNext]_vars

----------------------------------------------------------------------------
(* The HTTP boundary (registry/src/main.rs): append_op under the write lock  *)
(* of the shared State, and the live part of get_log.  The handler is split  *)
(* at its calls, so that the subscriber acts between any two of them.        *)

MaxAppends == 17    \* operations written to the log table in one run
MaxVaried == 1      \* writes after which callers only repeat the first Trust, and
                    \* every request succeeds
MaxFailures == 1    \* requests answered 400 or 500 in one run

\* the operations posted to /append: two Trusts of the server, and a Trust of
\* the server to itself
HttpOps == {FirstTrust, SecondTrust, SelfTrust}

\* a request may still be refused or fail
MayFail ==
    /\ Len(http.writes) <= MaxVaried
    /\ Len(http.handled) - Len(http.writes) < MaxFailures

\* the handler returns: the lock guard is dropped
Respond(h, status) ==
    [h EXCEPT !.pc = "idle", !.reply = status, !.handled = Append(@, <<h.op, status>>)]

\* state.write(): the handler takes the lock for the whole call
AppendLock(op) ==
    /\ http.pc = "idle"
    /\ Len(http.writes) < MaxAppends
    /\ op = SecondTrust => Len(http.writes) < MaxVaried
    /\ op = SelfTrust => MayFail
    /\ http' = [http EXCEPT !.pc = "locked", !.op = op, !.reply = "none"]
    /\ UNCHANGED <<keys, key_indexes, lines, offset_file, log_file, hash_file, thread,
                   io_errors, last, chan>>

\* cassis::state::validate(&state, &op): an error is answered 400; a panic
\* poisons the lock
AppendValidate ==
    /\ http.pc = "locked"
    /\ LET res == validate(State, http.op) IN
       http' = IF res.kind = "ok" THEN [http EXCEPT !.pc = "validated"]
               ELSE IF res.kind = "err" THEN Respond(http, "400")
               ELSE [http EXCEPT !.pc = "poisoned"]
    /\ UNCHANGED <<keys, key_indexes, lines, offset_file, log_file, hash_file, thread,
                   io_errors, last, chan>>

\* table.insert(&state.op_serial, &op) in a write transaction and commit
insert(table, serial, op) ==
    [k \in DOMAIN table \cup {serial + 1} |-> IF k = serial + 1 THEN op ELSE table[k]]

\* append_op going on to process when the write transaction failed
AppendWrite_IgnoresFailure ==
    /\ http.pc = "validated"
    /\ \E committed \in BOOLEAN :
        /\ ~committed => MayFail
        /\ http' = IF committed
                   THEN [http EXCEPT !.pc = "written",
                                     !.table = insert(@, http.op_serial, http.op),
                                     !.writes = Append(@, http.op)]
                   ELSE [http EXCEPT !.pc = "written"]
    /\ UNCHANGED <<keys, key_indexes, lines, offset_file, log_file, hash_file, thread,
                   io_errors, last, chan>>

\* the write transaction: it commits, or it fails and the handler answers 500
AppendWrite ==
    /\ http.pc = "validated"
    /\ \E committed \in BOOLEAN :
        /\ ~committed => MayFail
        /\ http' = IF committed
                   THEN [http EXCEPT !.pc = "written",
                                     !.table = insert(@, http.op_serial, http.op),
                                     !.writes = Append(@, http.op)]
                   ELSE Respond(http, "500")
    /\ UNCHANGED <<keys, key_indexes, lines, offset_file, log_file, hash_file, thread,
                   io_errors, last, chan>>

\* cassis::state::process(&mut state, &op)
AppendApply ==
    /\ http.pc = "written"
    /\ LET st == process(State, http.op) IN
       /\ keys' = st.keys
       /\ key_indexes' = st.key_indexes
       /\ lines' = st.lines
       /\ http' = IF st.panic THEN [http EXCEPT !.pc = "poisoned"]
                  ELSE [http EXCEPT !.pc = "applied", !.applied = Append(@, http.op)]
    /\ UNCHANGED <<offset_file, log_file, hash_file, thread, io_errors, last, chan>>

\* streamer.send(value): the value takes the slot of its position, over the
\* value that was sent Slots sends before; the Receiver kept by main() keeps
\* send from failing for want of a receiver.  Then 200.
AppendPublish ==
    /\ http.pc = "applied"
    /\ LET pos == Len(http.published)
           value == ToValue(http.op)
           sent == [http EXCEPT !.ring[pos % Slots] = [pos |-> pos, value |-> value],
                                !.published = Append(@, value)]
       IN http' = Respond(sent, "200")
    /\ UNCHANGED <<keys, key_indexes, lines, offset_file, log_file, hash_file, thread,
                   io_errors, last, chan>>

\* get_log with live = true: under the read lock, shared_listener.resubscribe()
\* gives a Receiver that starts at the position of the next send
Subscribe ==
    /\ http.pc = "idle"
    /\ http.sub.st = "none"
    /\ http' = [http EXCEPT !.sub = [st |-> "live", from |-> Len(http.published),
                                     next |-> Len(http.published), got |-> <<>>]]
    /\ UNCHANGED <<keys, key_indexes, lines, offset_file, log_file, hash_file, thread,
                   io_errors, last, chan>>

\* BroadcastStream yields the next value: the slot of position next still holds
\* it, or it was overwritten and the stream yields Err(Lagged), on which
\* res.unwrap() panics and the response ends
Receive ==
    /\ http.sub.st = "live"
    /\ http.sub.next < Len(http.published)
    /\ LET slot == http.ring[http.sub.next % Slots] IN
       http' = IF slot.pos = http.sub.next
               THEN [http EXCEPT !.sub.got = Append(@, slot.value), !.sub.next = @ + 1]
               ELSE [http EXCEPT !.sub.st = "lagged"]
    /\ UNCHANGED <<keys, key_indexes, lines, offset_file, log_file, hash_file, thread,
                   io_errors, last, chan>>

HttpInit ==
    /\ keys = Bootstrap.keys
    /\ key_indexes = Bootstrap.key_indexes
    /\ lines = Bootstrap.lines
    /\ offset_file = <<>>
    /\ log_file = <<>>
    /\ hash_file = <<>>
    /\ thread = "none"
    /\ io_errors = 0
    /\ last = NoRequest
    /\ chan = NoChan
    /\ http = NoHttp

HttpAppend == \E op \in HttpOps : AppendLock(op)

HttpNext ==
    \/ HttpAppend
    \/ AppendValidate
    \/ AppendWrite
    \/ AppendApply
    \/ AppendPublish
    \/ Subscribe
    \/ Receive

SpecHttp == HttpInit /\ [][HttpNext]_vars

----------------------------------------------------------------------------
(* The operation codec on its own (lib/src/operation): an operation is      *)
(* serialized, read back, or hashed for signing.                            *)

\* the signatures a Trust or a PeerSig may carry
CodecSigs == {NoSig, Sign(SERVER_KEY, 0), Sign(3, 1)}

\* Trusts signed over their sighash or carrying any other signature, and
\* Transfers of 0 to 3 hops with 0 to 2 signatures
CodecOps ==
    {NewTrust(sg, f, k, a) : sg \in Signers, f \in PeerIdxs, k \in KeyIds, a \in TrustAmounts}
    \cup {[tag |-> "t", ts |-> 1, from |-> f, to |-> k, amount |-> a, sig |-> sg] :
            f \in {0, 1}, k \in KeyIds, a \in TrustAmounts, sg \in CodecSigs}
    \cup {NewTransfer(h, sg) : h \in {x \in HopLists : Len(x) # 1 \/ x[1].amount = 1},
                               sg \in {<<>>} \cup {<<[peer_idx |-> 0, sig |-> g]>> : g \in CodecSigs}
                                      \cup {<<[peer_idx |-> 0, sig |-> Sign(SERVER_KEY, 0)],
                                              [peer_idx |-> 1, sig |-> g]>> : g \in CodecSigs}}

CodecInit ==
    /\ keys = Bootstrap.keys
    /\ key_indexes = Bootstrap.key_indexes
    /\ lines = Bootstrap.lines
    /\ offset_file = <<>>
    /\ log_file = <<>>
    /\ hash_file = <<>>
    /\ thread = "none"
    /\ io_errors = 0
    /\ \E op \in CodecOps : last = [act |-> "new", op |-> op]
    /\ chan = NoChan
    /\ http = NoHttp

\* op.write_serialized(&mut w[2..]) on a window of op.size() bytes
CodecSerialize ==
    /\ last.act = "new"
    /\ last' = [act |-> "serialize", op |-> last.op, out |-> serialize(last.op)]
    /\ UNCHANGED <<keys, key_indexes, lines, offset_file, log_file, hash_file, thread,
                   io_errors, chan, http>>

\* Operation::as_bytes
CodecAsBytes ==
    /\ last.act = "new"
    /\ last' = [act |-> "as_bytes", op |-> last.op, out |-> as_bytes(last.op)]
    /\ UNCHANGED <<keys, key_indexes, lines, offset_file, log_file, hash_file, thread,
                   io_errors, chan, http>>

\* Operation::deserialize on the bytes that were written
CodecDeserialize ==
    /\ last.act \in {"serialize", "as_bytes"}
    /\ ~last.out.panic
    /\ last' = [act |-> "deserialize", op |-> last.op, via |-> last.act,
                back |-> deserialize(last.out.buf)]
    /\ UNCHANGED <<keys, key_indexes, lines, offset_file, log_file, hash_file, thread,
                   io_errors, chan, http>>

\* op.sighash()
CodecSighash ==
    /\ last.act = "new"
    /\ last' = [act |-> "sighash", op |-> last.op, out |-> sighash(last.op)]
    /\ UNCHANGED <<keys, key_indexes, lines, offset_file, log_file, hash_file, thread,
                   io_errors, chan, http>>

CodecNext == CodecSerialize \/ CodecAsBytes \/ CodecDeserialize \/ CodecSighash

SpecCodec == CodecInit /\ [][CodecNext]_vars

----------------------------------------------------------------------------
(* Properties of the write path. *)

\* the State that a replay of the log file from the bootstrap State builds
Replayed == init(Store)

C2_IoErrorLeavesStateAlone ==
    [][(last'.act = "append" /\ last'.res.kind = "ok" /\ last'.io # "none") =>
            /\ last'.reply = "error"
            /\ keys' = keys
            /\ key_indexes' = key_indexes
            /\ lines' = lines]_vars

\* C3: an append that validate rejected writes nothing to the offset, log and
\* hash files and leaves keys, key_indexes and lines unchanged.
C3_RejectedWritesNothing ==
    [][(last'.act = "append" /\ last'.res.kind = "err") =>
            /\ offset_file' = offset_file
            /\ log_file' = log_file
            /\ hash_file' = hash_file
            /\ keys' = keys
            /\ key_indexes' = key_indexes
            /\ lines' = lines]_vars

\* a Trust with an unknown truster was rejected by the running coordinator
C3_Witness ==
    /\ last.act = "append"
    /\ last.tag = "t"
    /\ last.res = Err("from key doesn't exist")
    /\ thread = "dead"

\* C4: validate rejects a Trust whose signature does not verify against the
\* key at from, so every Trust the coordinator accepted for the log was signed
\* by that key.
C4_AcceptedTrustIsSigned ==
    (last.act = "append" /\ last.tag = "t" /\ last.res.kind = "ok") => last.sigs_ok

RECURSIVE NetDelta(_, _)
\* what peer p receives over hops, less what it sends
NetDelta(hops, p) ==
    IF hops = <<>> THEN 0
    ELSE (IF Head(hops).to = p THEN Head(hops).amount ELSE 0)
         - (IF Head(hops).from = p THEN Head(hops).amount ELSE 0)
         + NetDelta(Tail(hops), p)

\* the peers with a negative net delta and no entry in t.sigs
Unsigned(t) ==
    {p \in PeerIdxs :
        NetDelta(t.hops, p) < 0 /\ \A i \in 1..Len(t.sigs) : t.sigs[i].peer_idx # p}

C7_CreditDecidedByAmount ==
    \A x \in Legs : \A a \in HopAmounts \ {0} :
        LET hop == Hop(x[1], x[2], a)
            k == build_key(hop.from, hop.to)
        IN k \in DOMAIN lines =>
            ((validate(State, NewTransfer(<<hop>>, <<>>)).msg = "not enough credit in line")
                <=> (hop.amount > (IF hop.from = lines[k].peers[1]
                                   THEN lines[k].trust[1] - lines[k].balance
                                   ELSE lines[k].trust[2] + lines[k].balance)))

\* available credit is non-negative in both directions
CreditNonNegative(line) ==
    /\ line.trust[1] - line.balance >= 0
    /\ line.trust[2] + line.balance >= 0

\* C8: once a Transfer accepted by validate has been applied, every line whose
\* available credit was non-negative in both directions before it still has
\* non-negative available credit in both directions.
C8_CreditStaysNonNegative ==
    [][(last'.act = "process" /\ last'.tag = "x") =>
            \A k \in DOMAIN lines :
                CreditNonNegative(lines[k]) => CreditNonNegative(lines'[k])]_vars

\* s is a prefix of t
IsPrefix(s, t) == Len(s) <= Len(t) /\ s = SubSeq(t, 1, Len(s))

\* C9: when the process died inside an append, the next startup's check-and-heal
\* succeeds and leaves whole entries only: the three files agree on the number
\* of entries, which is the number before the interrupted append or one more,
\* and the entries that were there before are kept.
C9_CrashedAppendHeals ==
    [][(last.act = "crash" /\ last'.act = "start") =>
            /\ thread' = "running"
            /\ StoreComplete(Store')
            /\ Len(hash_file') \in {Len(hash_file), Len(hash_file) + 32}
            /\ IsPrefix(hash_file, hash_file')
            /\ IsPrefix(offset_file', offset_file)
            /\ IsPrefix(log_file', log_file)]_vars

\* the State after the entries before the last one: the replay of the log up
\* to the last offset
WithoutLastEntry ==
    replay(SubSeq(log_file, 1, ReadLE32(ReadAt(offset_file, Len(offset_file) - 4, 4))),
           0, Bootstrap)

\* C10: when the log file of a store of k >= 2 complete entries was cut in the
\* middle of the last payload, the next startup drops exactly the last entry:
\* the offset file ends with k-1 entries and the State is the one after the
\* first k-1 appends.
C10_TornLastEntryIsDropped ==
    [][(last.act = "truncate" /\ last'.act = "start" /\ Len(offset_file) >= 8) =>
            /\ thread' = "running"
            /\ Len(offset_file') = Len(offset_file) - 4
            /\ keys' = WithoutLastEntry.keys
            /\ key_indexes' = WithoutLastEntry.key_indexes
            /\ lines' = WithoutLastEntry.lines]_vars

\* C11: after n successful appends read(i) returns, for every i < n, the i-th
\* operation appended with every field, and fails for every i >= n.  Stated on
\* one more append to a store of n whole entries: the appended Trust is read
\* back at n as it was submitted, read(n + 1) fails, and the entries below n
\* read as before.
C11_ReadReturnsAppended ==
    (thread = "running" /\ StoreComplete(Store)) =>
        \A s \in Signers, f \in PeerIdxs, k \in KeyIds, a \in TrustAmounts :
            LET t == NewTrust(s, f, k, a)
                r == append_operation(Store, t, "none")
                n == Len(offset_file) \div 4
            IN (validate(State, t).kind = "ok" /\ r.outcome = "ok") =>
                /\ read_operation(r.store, n) = ReadOk(t)
                /\ read_operation(r.store, n + 1).kind = "err"
                /\ \A i \in 0..(n - 1) :
                        read_operation(r.store, i) = read_operation(Store, i)

\* the requests whose log append returned Ok
Appended == {i \in 1..Len(chan.reqs) : chan.reqs[i].pos >= 0}

\* the offset stored at position i of the offset file
OffsetAt(i) == ReadLE32(ReadAt(offset_file, i * 4, 4))

\* the steps of one request are next to each other in the order of events
Serialized ==
    \A i, j, k \in 1..Len(chan.events) :
        (i < j /\ j < k /\ chan.events[i][1] = chan.events[k][1]) =>
            chan.events[j][1] = chan.events[i][1]

\* every appended operation has one position of its own, and the positions
\* follow the entries the store started with, without a gap
ConsecutivePositions ==
    /\ \A i, j \in Appended : i # j => chan.reqs[i].pos # chan.reqs[j].pos
    /\ \A i \in Appended :
            Cardinality({p \in 0..(Len(offset_file) \div 4 - 1) :
                            OffsetAt(p) = OffsetAt(chan.reqs[i].pos)}) = 1
    /\ {chan.reqs[i].pos : i \in Appended} =
            {Len(ChanStore.offset) \div 4 + m : m \in 0..(Cardinality(Appended) - 1)}

\* C12: with several callers submitting at once the serializer handles the
\* requests one at a time: the validate, append and process steps of two
\* requests never interleave, each successful append has exactly one log
\* position, and the positions are consecutive, without gap or duplicate.
C12_AppendsAreSerialized == Serialized /\ ConsecutivePositions

\* C13: every request the serializer accepted gets its one reply once it has
\* been handled: no request is left with its reply sender dropped, and the
\* reply to an append that validate rejects is the Error response.
C13_EveryRequestIsAnswered ==
    \A i \in 1..Len(chan.reqs) :
        /\ chan.reqs[i].st # "lost"
        /\ (chan.reqs[i].st = "replied" /\ chan.reqs[i].req = AppendReq(SelfTrust)) =>
                chan.reqs[i].reply.kind = "Error"

\* the line between from and the index of key `to` in st
LineOf(st, from, to) == st.lines[build_key(st.key_indexes[KeyBytes(to)], from)]

\* the limit that peer from extends on line, by the layout a new line is given:
\* trust.1 when from is the lower index, trust.0 when it is the higher
LimitOf(line, from) == IF from = line.peers[1] THEN line.trust[2] ELSE line.trust[1]

\* C14: after an accepted Trust(from -> to, amount) is applied, from's half of
\* the line's trust equals amount, the same half whether the Trust created
\* the line or updated it (the server trusting key 2 twice leaves (0, amount)).
C14_TrustSetsItsHalf ==
    \A s \in Signers, f \in PeerIdxs, k \in KeyIds, a \in TrustAmounts :
        LET t == NewTrust(s, f, k, a) IN
        validate(State, t).kind = "ok" =>
            LimitOf(LineOf(process(State, t), f, k), f) = a

\* C15: applying the same accepted Trust twice in a row yields the same keys,
\* key_indexes and lines as applying it once, whether the first application
\* creates the line or finds it.
C15_TrustIsIdempotent ==
    \A s \in Signers, f \in PeerIdxs, k \in KeyIds, a \in TrustAmounts :
        LET t == NewTrust(s, f, k, a)
            once == process(State, t)
        IN (validate(State, t).kind = "ok" /\ validate(once, t).kind = "ok") =>
               process(once, t) = once

\* the peer of line that is not p
OtherPeer(line, p) == IF line.peers[1] = p THEN line.peers[2] ELSE line.peers[1]

\* C16: an accepted Trust from x to y on an existing line changes neither the
\* limit that y extended to x nor the balance, and no other line; so after
\* both peers trusted each other the line holds both limits.
C16_TrustKeepsOtherHalf ==
    \A s \in Signers, f \in PeerIdxs, k \in KeyIds, a \in TrustAmounts :
        LET t == NewTrust(s, f, k, a)
            after == process(State, t)
        IN (/\ validate(State, t).kind = "ok"
            /\ KeyBytes(k) \in DOMAIN key_indexes
            /\ build_key(key_indexes[KeyBytes(k)], f) \in DOMAIN lines) =>
               LET key == build_key(key_indexes[KeyBytes(k)], f)
                   y == OtherPeer(lines[key], f)
               IN /\ LimitOf(after.lines[key], y) = LimitOf(lines[key], y)
                  /\ after.lines[key].balance = lines[key].balance
                  /\ \A o \in DOMAIN lines \ {key} : after.lines[o] = lines[o]

\* key_indexes is exactly the inverse of keys
KeysInverse(ks, idx) ==
    /\ DOMAIN idx = {KeyBytes(ks[i]) : i \in 1..Len(ks)}
    /\ \A i \in 1..Len(ks) : idx[KeyBytes(ks[i])] = i - 1
    /\ \A i, j \in 1..Len(ks) : ks[i] = ks[j] => i = j

\* C17: key_indexes is exactly the inverse of keys (key_indexes[keys[i]] = i,
\* no other entry, no key twice), and whatever accepted operation is applied
\* next leaves keys as a prefix of the new keys and every assigned index as
\* it was.
C17_KeysAppendOnly ==
    /\ KeysInverse(keys, key_indexes)
    /\ \A op \in {NewTrust(s, f, k, a) : s \in Signers, f \in PeerIdxs, k \in KeyIds,
                                         a \in TrustAmounts}
                 \cup {NewTransfer(h, <<>>) : h \in HopLists} :
           LET after == process(State, op) IN
           (validate(State, op).kind = "ok" /\ ~after.panic) =>
               /\ IsPrefix(keys, after.keys)
               /\ \A b \in DOMAIN key_indexes :
                      b \in DOMAIN after.key_indexes /\ after.key_indexes[b] = key_indexes[b]

\* keys grew twice: each Trust to a new key took the next index
C17_Witness ==
    /\ last.act = "process"
    /\ last.tag = "t"
    /\ keys = <<SERVER_KEY, 3, 2>>
    /\ key_indexes[KeyBytes(3)] = 1
    /\ key_indexes[KeyBytes(2)] = 2

\* C18: starting the coordinator on an empty store succeeds: the thread runs
\* and the state is keys = [server_key], key_indexes = {server_key -> 0}, no
\* lines, which is what GetKeyID(server_key) and GetLines then answer from.
C18_StartsOnEmptyStore ==
    [][(Store = EmptyStore /\ last'.act = "start") =>
            /\ thread' = "running"
            /\ keys' = <<SERVER_KEY>>
            /\ key_indexes' = [b \in {KeyBytes(SERVER_KEY)} |-> 0]
            /\ lines' = [k \in {} |-> 0]]_vars

\* the larger of two limits
Max(a, b) == IF a >= b THEN a ELSE b

\* C19: in every reachable state every line satisfies
\* |balance| <= max(trust.0, trust.1) + trust.0 + trust.1, whatever accepted
\* Trusts and Transfers produced the state.
C19_BalanceWithinTrust ==
    \A k \in DOMAIN lines :
        Abs(lines[k].balance) <=
            Max(lines[k].trust[1], lines[k].trust[2]) + lines[k].trust[1] + lines[k].trust[2]

\* key `to` is in the key table of the current state at the index from
TrustsItself(from, to) ==
    KeyBytes(to) \in DOMAIN key_indexes /\ key_indexes[KeyBytes(to)] = from

\* C20: validate rejects with "can't trust yourself" every Trust whose to key
\* is in the key table at the index t.from, and the coordinator's handling of
\* such a Trust changes neither keys, key_indexes, lines nor the three files.
C20_SelfTrustIsRejected ==
    /\ [](\A f \in PeerIdxs, k \in KeyIds :
            TrustsItself(f, k) =>
                \A s \in Signers, a \in TrustAmounts :
                    validate(State, NewTrust(s, f, k, a)) = Err("can't trust yourself"))
    /\ [][\A f \in PeerIdxs, k \in KeyIds :
            (last'.act = "append" /\ TrustsItself(f, k)) =>
                \A s \in Signers, a \in TrustAmounts, io \in IoPoints :
                    AppendOperation(NewTrust(s, f, k, a), io) =>
                        /\ last'.res = Err("can't trust yourself")
                        /\ offset_file' = offset_file
                        /\ log_file' = log_file
                        /\ hash_file' = hash_file
                        /\ keys' = keys
                        /\ key_indexes' = key_indexes
                        /\ lines' = lines]_vars

\* the coordinator refused a Trust from a peer to its own key; state and
\* store are the replay of one another as before the request
C20_Witness ==
    /\ last.act = "append"
    /\ last.tag = "t"
    /\ last.res = Err("can't trust yourself")
    /\ Len(keys) >= 2
    /\ Len(log_file) > 0

\* request i was answered Response::OK for its append
AppendedOk(i) ==
    /\ chan.reqs[i].req.kind = "append"
    /\ chan.reqs[i].st = "replied"
    /\ chan.reqs[i].reply = Reply("OK", 0)

\* every answered GetKeyID(3) that was queued behind an append of the Trust to
\* key 3 answered OK carries the index that append gave the key
ReadsSeeAppends ==
    \A i, j \in 1..Len(chan.reqs) :
        (/\ i < j
         /\ AppendedOk(i)
         /\ chan.reqs[i].req.op = SecondTrust
         /\ chan.reqs[j].req = KeyIdReq(3)
         /\ chan.reqs[j].st = "replied") =>
            chan.reqs[j].reply = Reply("KeyIdx", 2)

\* the State a GetKeyID or GetLines was just answered from is the one the log holds
ReadsSeeTheLog ==
    (/\ chan.pc = "handled"
     /\ chan.reqs[chan.cur].req.kind \in {"keyid", "lines"}) =>
        /\ keys = Replayed.keys
        /\ key_indexes = Replayed.key_indexes
        /\ lines = Replayed.lines

\* C21: a GetKeyID or GetLines behind an append that was answered OK returns a
\* result that includes that append, and no such read is answered from a
\* State that holds an operation the log does not hold, or the reverse.
C21_ReadsReflectAppends == ReadsSeeAppends /\ ReadsSeeTheLog

\* the request a response was just built for is a listing
ListHandled == chan.pc = "handled" /\ chan.reqs[chan.cur].req.kind = "list"

\* the operations at the log positions i with from <= i < to
Positions(from, to) == [i \in 1..(to - from) |-> read_operation(Store, from + i - 1).op]

\* C22: ListOperations(from, to) with both bounds present and
\* from <= to <= number of entries is answered with an Operations response
\* holding exactly the operations at the positions from <= i < to, in log order.
C22_ListReturnsHalfOpenRange ==
    ListHandled =>
        LET r == chan.reqs[chan.cur].req IN
        (r.from # None /\ r.to # None /\ r.from[1] <= r.to[1]
            /\ r.to[1] <= Len(offset_file) \div 4) =>
                chan.resp = Reply("Operations", Positions(r.from[1], r.to[1]))

\* the smaller of two positions
Min(a, b) == IF a <= b THEN a ELSE b

\* the window of a listing with a bound missing: [from, from + 50), [to - 50, to)
\* or [0, 50)
WindowStart(from, to) ==
    IF from # None THEN from[1]
    ELSE IF to # None /\ to[1] >= LIST_WINDOW THEN to[1] - LIST_WINDOW
    ELSE 0

WindowEnd(from, to) ==
    IF to # None THEN to[1]
    ELSE IF from # None THEN from[1] + LIST_WINDOW
    ELSE LIST_WINDOW

\* C23: a ListOperations with a bound missing is answered with the entries of
\* its window [from, from + 50), [to - 50, to) or [0, 50) that exist, also when
\* the log holds fewer entries than the window or to < 50; it does not fail and
\* its bounds do not wrap.
C23_ListWindows ==
    (chan.cur # 0 /\ chan.reqs[chan.cur].req.kind = "list") =>
        LET r == chan.reqs[chan.cur].req
            n == Len(offset_file) \div 4
        IN (r.from = None \/ r.to = None) =>
            /\ \A checked \in BOOLEAN :
                   ListBounds(r.from, r.to, checked).kind = "ok"
            /\ chan.pc = "handled" =>
                   chan.resp = Reply("Operations",
                                     Positions(Min(WindowStart(r.from, r.to), n),
                                               Min(WindowEnd(r.from, r.to), n)))

\* the handler answered 200
Answered200(h) == h[2] = "200"

\* the operations of the requests answered 200, in the order of the answers
Accepted == SelectSeq(http.handled, Answered200)

Behind == Len(http.published) - http.sub.next

\* C25: a subscriber that attached to the live tail at time T and never fell
\* more than the channel capacity behind has received, each once and in append
\* order, the operations appended after T up to its position, and its stream
\* has not ended: a stream ends only more than the capacity behind.
C25_SubscriberSeesEveryAppend ==
    http.sub.st # "none" =>
        /\ http.sub.next = http.sub.from + Len(http.sub.got)
        /\ http.sub.next <= Len(http.writes)
        /\ \A i \in 1..Len(http.sub.got) :
               http.sub.got[i] = ToValue(http.writes[http.sub.from + i])
        /\ http.sub.st = "lagged" => Behind > TAIL_CAPACITY

\* a subscriber that attached after the first append is exactly the capacity
\* behind and still receives
C25_Witness ==
    /\ http.sub.st = "live"
    /\ http.sub.from >= 1
    /\ Len(http.sub.got) >= 2
    /\ Behind = TAIL_CAPACITY


\* request n went through the given step in the thread
Did(n, step) == \E e \in 1..Len(chan.events) : chan.events[e] = <<n, step>>

\* the append requests whose caller dropped its receiver and that the thread
\* no longer holds after it started on them
CancelledAndLeft ==
    {n \in 1..Len(chan.reqs) :
        /\ chan.reqs[n].req.kind = "append"
        /\ ~chan.reqs[n].rx
        /\ Did(n, "validate")
        /\ chan.cur # n}

\* C26: an AppendOperation whose requester dropped its reply channel while
\* the request was queued or being handled is still handled completely: it
\* is either rejected with nothing written and nothing applied, or written to
\* the log and applied to state; it is never written but not applied.
C26_CancelledAppendCompletes ==
    \A n \in CancelledAndLeft :
        \/ ~Did(n, "append") /\ ~Did(n, "process") /\ chan.reqs[n].pos < 0
        \/ chan.reqs[n].pos >= 0 /\ Did(n, "process")


\* C27: deserialize(serialize(op)) = op for every Trust and every Transfer:
\* serializing returns, and reading the bytes back returns the operation with
\* every hop and every signature, in order, with the same field values.
C27_RoundTrip ==
    /\ last.act = "serialize" => ~last.out.panic
    /\ (last.act = "deserialize" /\ last.via = "serialize") =>
            /\ ~last.back.panic
            /\ last.back.op = last.op


\* the operations that differ from op in signature bytes only
SigVariants(op) ==
    CASE op.tag = "t" -> {[op EXCEPT !.sig = g] : g \in CodecSigs}
      [] op.tag = "x" ->
            {[op EXCEPT !.sigs = [i \in 1..Len(op.sigs) |-> [@[i] EXCEPT !.sig = g[i]]]] :
                g \in [1..Len(op.sigs) -> CodecSigs]}
      [] OTHER -> {op}

\* C28: sighash depends only on the non-signature fields: sighash returns
\* for every Trust and every Transfer, and the operations that differ from
\* it only in Trust.sig or in the sig bytes of Transfer.sigs have the same
\* sighash.
C28_SighashIgnoresSig ==
    last.act = "sighash" =>
        /\ ~last.out.panic
        /\ \A other \in SigVariants(last.op) : sighash(other) = last.out


\* the offset held by the last whole entry of the offset file
LastOffset == OffsetAt(Len(offset_file) \div 4 - 1)

C30_OffsetLengthIsMultipleOf4 ==
    [][(last'.act = "start" /\ \E c \in BOOLEAN, d \in DropOutcomes :
            /\ check_and_heal(Store, c, d).outcome = "ok"
            /\ log_file' = check_and_heal(Store, c, d).store.log
            /\ offset_file' = check_and_heal(Store, c, d).store.offset) =>
            Len(offset_file') % 4 = 0]_vars


RECURSIVE RecordOffsets(_, _)
\* the offsets of the complete records of log, from offset on
RecordOffsets(log, offset) ==
    IF ~CanRead(log, offset, 2) THEN <<>>
    ELSE LET sz == ReadLE16(ReadAt(log, offset, 2)) IN
         IF ~CanRead(log, offset + 2, sz) THEN <<>>
         ELSE <<offset>> \o RecordOffsets(log, offset + 2 + sz)

\* the three files hold the same entries
FilesAgree ==
    LET recs == RecordOffsets(log_file, 0) IN
    /\ Len(offset_file) % 4 = 0
    /\ Len(hash_file) % 32 = 0
    /\ Len(offset_file) \div 4 = Len(recs)
    /\ Len(hash_file) \div 32 = Len(recs)
    /\ \A i \in 1..Len(recs) :
          /\ OffsetAt(i - 1) = recs[i]
          /\ ReadAt(hash_file, (i - 1) * 32, 32) =
                DigestBytes(SHA256(ReadAt(log_file, recs[i] + 2,
                                          ReadLE16(ReadAt(log_file, recs[i], 2)))))

\* C31: whenever no append is in progress, after any mix of successful
\* appends and appends that failed with an IO error at one of their three
\* writes, the three files agree: len(offset)/4 = number of complete records
\* of the log = len(hash)/32, offset[0] = 0, offset[i+1] = offset[i] + 2 +
\* size of record i, and hash[i] is the digest of the payload of record i.
C31_FilesAgree == FilesAgree


\* C32: check-and-heal on a store made of complete appends only (at least
\* one entry) returns ok and changes none of the three files; so a second
\* check-and-heal right after a successful one changes nothing, and no
\* complete entry is ever dropped.
C32_HealKeepsCompleteStore ==
    [][(last'.act = "start" /\ StoreComplete(Store) /\ FilesAgree) =>
            /\ last'.res = Ok
            /\ offset_file' = offset_file
            /\ log_file' = log_file
            /\ hash_file' = hash_file]_vars


\* the thread's step rejects the append in hand
RejectsAppend ==
    /\ chan.pc = "got"
    /\ Len(chan'.events) > Len(chan.events)
    /\ validate(State, CurOp).kind # "ok"

\* the thread's step is a log append that fails with an IO error
AppendFails == chan.pc = "validated" /\ io_errors' > io_errors

\* the thread's step sends a reply to a requester that dropped its receiver
ReplyUndelivered ==
    /\ chan.pc = "handled"
    /\ chan'.pc # "handled"
    /\ ~chan.reqs[chan.cur].rx

\* C33: the serializer thread keeps handling requests: after an append that
\* validate rejected, after a log append that failed and after a reply that
\* could not be delivered, the thread is still running and the requests in
\* the queue are still waiting to be handled and answered.
C33_SerializerKeepsRunning ==
    [][(thread = "running" /\ (RejectsAppend \/ AppendFails \/ ReplyUndelivered)) =>
            /\ thread' = "running"
            /\ chan'.queue = chan.queue
            /\ \A n \in 1..Len(chan.reqs) :
                  chan.reqs[n].st = "queued" => chan'.reqs[n].st = "queued"]_vars


\* the balances of the lines of st, by table key
Balances(ls) == [k \in DOMAIN ls |-> ls[k].balance]

\* C34: every accepted Transfer that changes the balance of at least one
\* line carries at least one signature entry: no balance is changed by a
\* Transfer with sigs = [], a cycle of hops of equal amount included.
C34_BalanceChangeIsSigned ==
    [][(last'.act = "process" /\ last'.tag = "x" /\ Balances(lines') # Balances(lines)) =>
            last'.nsigs >= 1]_vars


\* C35: for every Transfer size() is 7 + 12*nhops + 68*nsigs and size_nosig()
\* is 7 + 12*nhops, the length of tag, ts, nhops, nsigs and the hops; the
\* buffers of these sizes are large enough for write_serialized to write the
\* header and every hop without going out of bounds.
C35_TransferSizes ==
    (last.act \in {"serialize", "sighash"} /\ last.op.tag = "x") =>
        /\ Transfer_size(last.op) = 7 + HOP_SIZE * Len(last.op.hops) + PEERSIG_SIZE * Len(last.op.sigs)
        /\ Transfer_size_nosig(last.op) = 7 + HOP_SIZE * Len(last.op.hops)
        /\ ~last.out.panic


\* the indexes a Transfer refers to
TransferIndexes(t) ==
    {t.hops[i].from : i \in 1..Len(t.hops)} \cup {t.hops[i].to : i \in 1..Len(t.hops)}
        \cup {t.sigs[i].peer_idx : i \in 1..Len(t.sigs)}

RECURSIVE HopsOver(_, _, _)
\* what the hops from hop i on add to the balance of the line of pair k:
\* + amount for a hop from the lower index, - amount for one from the higher
HopsOver(hops, k, i) ==
    IF i > Len(hops) THEN 0
    ELSE (IF {hops[i].from, hops[i].to} = {k[1], k[2]}
          THEN IF hops[i].from = k[1] THEN hops[i].amount ELSE 0 - hops[i].amount
          ELSE 0)
         + HopsOver(hops, k, i + 1)

\* applying the Trust t to the current state leaves every balance and the
\* limits of every other line alone, and removes no line
TrustFrame(t) ==
    LET st == process(State, t)
        to_idx == st.key_indexes[KeyBytes(t.to)]
    IN /\ DOMAIN lines \subseteq DOMAIN st.lines
       /\ \A k \in DOMAIN lines :
             /\ st.lines[k].balance = lines[k].balance
             /\ st.lines[k].peers = lines[k].peers
             /\ k # build_key(t.from, to_idx) => st.lines[k].trust = lines[k].trust
       /\ \A k \in DOMAIN st.lines \ DOMAIN lines :
             k = build_key(t.from, to_idx) /\ st.lines[k].balance = 0

\* applying the Transfer t to the current state moves the balances of the
\* lines of its hops by the hops' amounts and changes nothing else
TransferFrame(t) ==
    LET st == process(State, t) IN
    /\ st.keys = keys
    /\ st.key_indexes = key_indexes
    /\ DOMAIN st.lines = DOMAIN lines
    /\ \A k \in DOMAIN lines :
          /\ st.lines[k].trust = lines[k].trust
          /\ st.lines[k].peers = lines[k].peers
          /\ st.lines[k].balance = lines[k].balance + HopsOver(t.hops, k, 1)

\* C38: applying a Trust never changes the balance of any line and changes
\* the trust of no line other than the one between from and to; applying a
\* Transfer changes only the balances of the lines of its hops (+ amount
\* when hop.from is the lower index of the line, - amount otherwise) and
\* never any trust, keys, key_indexes or the set of lines; no operation
\* removes a line.
C38_ProcessFrame ==
    /\ \A sg \in Signers, f \in PeerIdxs, k \in KeyIds, a \in TrustAmounts :
            validate(State, NewTrust(sg, f, k, a)).kind = "ok" => TrustFrame(NewTrust(sg, f, k, a))
    /\ \A h \in HopLists : \A sg \in SigLists(h) :
            validate(State, NewTransfer(h, sg)).kind = "ok" => TransferFrame(NewTransfer(h, sg))
    /\ process(State, Unknown).lines = lines

\* a line carries a balance, and both a Trust that sets a limit on it and a
\* Transfer of two hops over it and another line are accepted
C38_Witness ==
    /\ \E k \in DOMAIN lines :
          /\ lines[k].balance # 0
          /\ validate(State, NewTrust(SERVER_KEY, k[1], keys[k[2] + 1], MaxAmount)).kind = "ok"
    /\ \E h \in HopLists :
          /\ Len(h) >= 2
          /\ validate(State, NewTransfer(h, <<>>)).kind = "ok"
          /\ \E k \in DOMAIN lines : HopsOver(h, k, 1) # 0


\* C39: in every reachable state process completes for every operation that
\* validate accepts there: each hop of an accepted Transfer finds its line,
\* so the lookup that process expects to succeed never misses.
C39_ProcessNeverFails ==
    /\ \A sg \in Signers, f \in PeerIdxs, k \in KeyIds, a \in TrustAmounts :
            validate(State, NewTrust(sg, f, k, a)).kind = "ok" =>
                ~process(State, NewTrust(sg, f, k, a)).panic
    /\ \A h \in HopLists : \A sg \in SigLists(h) :
            validate(State, NewTransfer(h, sg)).kind = "ok" =>
                ~process(State, NewTransfer(h, sg)).panic

\* a Transfer of three hops, one of them from the higher index of its
\* line, is accepted while another Transfer is refused for a missing line
C39_Witness ==
    /\ \E h \in HopLists :
          /\ Len(h) = 3
          /\ \E i \in 1..3 : h[i].from > h[i].to
          /\ validate(State, NewTransfer(h, <<>>)).kind = "ok"
    /\ \E h \in HopLists :
          validate(State, NewTransfer(h, <<>>)) = Err("no line available for transfer")

====
